---- MODULE Spec2Model ----
(***************************************************************************)
(* CleanMusicLocator: the orchestrator loop of main.py and the functions   *)
(* it calls (GetTrackMetaData, GetISRCMetadata, DoesExplicitVersionExist), *)
(* with the sqlite store, the catalog API and the prober as environment.   *)
(***************************************************************************)
EXTENDS Integers, Sequences, FiniteSets, TLC

VARIABLES
    pc,                 \* position in the __main__ block
    song,               \* index into song_paths of the file being handled (0 before the loop)
    metadata,           \* outcome of ffprobe3.probe inside GetTrackMetaData
    data,               \* SongMetadata of the current file, or None
    isrcMetadata,       \* ISRCMetadata of the current file, or None
    doesExplicitExist,  \* the local of the same name
    music,              \* rows of table music seen through the connection, in insertion order
    committed,          \* rows of table music that are durable (committed)
    search_payload,     \* the module-level fuzzy-search template
    trace,              \* history: every external effect, in order
    table_exists,       \* environment: music.db holds a table music
    sleep_ms,           \* args1.sleep
    call,               \* one call of a function taken alone: its arguments and what it gave
    frame,              \* one call of ffprobe3.probe: its position and locals
    child               \* the ffprobe child process of that call

vars == <<pc, song, metadata, data, isrcMetadata, doesExplicitExist, music,
          committed, search_payload, trace, table_exists, sleep_ms,
                   call, frame, child>>

----------------------------------------------------------------------------
(* Bounds *)

\* number of files GetAllMusicFiles returns
NumFiles == 2
\* longest stream list of a probe result
MaxStreams == 2
\* longest recordings list of a catalog response
MaxRecordings == 2

\* argparse default of --sleep
DefaultSleep == 1000
\* values of --sleep: the default, and a negative one (time.sleep raises ValueError)
SleepArgs == {DefaultSleep, 0 - DefaultSleep}

----------------------------------------------------------------------------
(* Values *)

\* no function is being called alone; no probe call is being followed
NoCall == [fn |-> "", phase |-> "idle"]
NoFrame == [pc |-> "idle"]
NoChild == [state |-> "none"]

None == [none |-> TRUE]
IsNone(x) == "none" \in DOMAIN x

\* ISRC tag values found in files
ISRCs == {"X1", "X2"}
\* keys the store can hold: tag values and the sentinel of a missing ISRC tag
StoreKeys == ISRCs \cup {"error"}

\* str(bool)
PyStr(b) == IF b THEN "True" ELSE "False"

TagOr(tags, key, default) == IF key \in DOMAIN tags THEN tags[key] ELSE default

\* sequences over S of length 0..n
SeqsUpTo(S, n) == UNION {[1..k -> S] : k \in 0..n}

\* one entry of the history: what was done, for which file, with what key or text
Ev(op, file, arg) == [op |-> op, file |-> file, arg |-> arg, ms |-> 0]
SleepEv(file, ms) == [op |-> "sleep", file |-> file, arg |-> "", ms |-> ms]

----------------------------------------------------------------------------
(* The prober: probe results as GetTrackMetaData reads them *)

NoTags == [k \in {} |-> ""]
Stream(codec_type, has_tags, tags) ==
    [codec_type |-> codec_type, has_tags |-> has_tags, tags |-> tags]

TagDicts ==
    {[k \in {"TITLE"} |-> "T"]}
    \cup {[k \in {"TITLE", "ISRC"} |-> IF k = "ISRC" THEN x ELSE "T"] : x \in ISRCs}

Streams ==
    {Stream("video", FALSE, NoTags), Stream("audio", FALSE, NoTags)}
    \cup {Stream("audio", TRUE, t) : t \in TagDicts}

\* outcomes of ffprobe3.probe: an exception, or an FFprobe with its stream list
ProbeOutcomes ==
    {[raised |-> TRUE, streams |-> <<>>]}
    \cup {[raised |-> FALSE, streams |-> s] : s \in SeqsUpTo(Streams, MaxStreams)}

NoProbe == [raised |-> FALSE, streams |-> <<>>]

SongMetadata(Artist, AlbumArtist, Title, Year, ISRC, FilePath) ==
    [Artist |-> Artist, AlbumArtist |-> AlbumArtist, Title |-> Title,
     Year |-> Year, ISRC |-> ISRC, FilePath |-> FilePath]

\* isinstance(s, FFaudioStream): _construct_ffstream_subclass builds an
\* FFaudioStream exactly for codec_type "audio"
IsAudioStream(s) == s.codec_type = "audio"

\* index of the first audio stream, 0 when there is none
FirstAudio(streams) ==
    LET idx == {k \in 1..Len(streams) : IsAudioStream(streams[k])}
    IN  IF idx = {} THEN 0 ELSE CHOOSE k \in idx : \A j \in idx : k <= j

\* the SongMetadata built from a tag dictionary (the five try/except reads)
MetaFromTags(tags, song_file_path) ==
    SongMetadata(TagOr(tags, "ARTIST", ""),
                 TagOr(tags, "album_artist", ""),
                 TagOr(tags, "TITLE", ""),
                 TagOr(tags, "DATE", ""),
                 TagOr(tags, "ISRC", "error"),
                 song_file_path)

\* Mutation of GetTrackMetaData: a missing ISRC tag defaults to "" like the others
GetTrackMetaData_EmptyIsrc(probed, song_file_path) ==
    IF probed.raised
    THEN [exc |-> FALSE, ret |-> None, logs |-> <<"Could not probe file for metadata">>]
    ELSE LET a == FirstAudio(probed.streams)
         IN  IF a = 0
             THEN [exc |-> FALSE, ret |-> None,
                   logs |-> <<"Could not find audio stream on file">>]
             ELSE IF ~probed.streams[a].has_tags
             THEN [exc |-> FALSE, ret |-> None, logs |-> <<>>]
             ELSE LET tags == probed.streams[a].tags
                  IN  [exc |-> FALSE,
                       ret |-> [MetaFromTags(tags, song_file_path)
                                   EXCEPT !.ISRC = TagOr(tags, "ISRC", "")],
                       logs |-> <<>>]

\* the audio streams of a list that carry a tag dictionary
TaggedAudio(streams) ==
    {k \in 1..Len(streams) : IsAudioStream(streams[k]) /\ streams[k].has_tags}

\* Mutation of GetTrackMetaData: an audio stream without tags is passed over
\* ("continue" in place of "return None")
GetTrackMetaData_NextAudio(probed, song_file_path) ==
    IF probed.raised
    THEN [exc |-> FALSE, ret |-> None, logs |-> <<"Could not probe file for metadata">>]
    ELSE LET idx == TaggedAudio(probed.streams)
         IN  IF idx = {}
             THEN [exc |-> FALSE, ret |-> None,
                   logs |-> <<"Could not find audio stream on file">>]
             ELSE LET a == CHOOSE k \in idx : \A j \in idx : k <= j
                  IN  [exc |-> FALSE,
                       ret |-> MetaFromTags(probed.streams[a].tags, song_file_path),
                       logs |-> <<>>]

\* Mutation of GetTrackMetaData: tags without an ISRC entry are given up
GetTrackMetaData_RejectNoIsrc(probed, song_file_path) ==
    IF probed.raised
    THEN [exc |-> FALSE, ret |-> None, logs |-> <<"Could not probe file for metadata">>]
    ELSE LET a == FirstAudio(probed.streams)
         IN  IF a = 0
             THEN [exc |-> FALSE, ret |-> None,
                   logs |-> <<"Could not find audio stream on file">>]
             ELSE IF ~probed.streams[a].has_tags
                     \/ "ISRC" \notin DOMAIN probed.streams[a].tags
             THEN [exc |-> FALSE, ret |-> None, logs |-> <<>>]
             ELSE [exc |-> FALSE,
                   ret |-> MetaFromTags(probed.streams[a].tags, song_file_path),
                   logs |-> <<>>]

\* GetTrackMetaData: exc is "an exception propagates", ret the value returned,
\* logs the logger.error records
GetTrackMetaData(probed, song_file_path) ==
    IF probed.raised
    THEN [exc |-> FALSE, ret |-> None, logs |-> <<"Could not probe file for metadata">>]
    ELSE LET a == FirstAudio(probed.streams)
         IN  IF a = 0
             THEN [exc |-> FALSE, ret |-> None,
                   logs |-> <<"Could not find audio stream on file">>]
             ELSE IF ~probed.streams[a].has_tags
             THEN [exc |-> FALSE, ret |-> None, logs |-> <<>>]
             ELSE [exc |-> FALSE,
                   ret |-> MetaFromTags(probed.streams[a].tags, song_file_path),
                   logs |-> <<>>]

----------------------------------------------------------------------------
(* The catalog API and the two lookups *)

ISRCFields ==
    {"duration", "recordingVersion", "isValidIsrc", "recordingYear",
     "recordingArtistName", "isExplicit", "isrc", "isrcFailureCode",
     "recordingTitle", "id"}

Restrict(f, S) == [k \in S |-> f[k]]

\* one item of the "recordings" list with all ten fields
Recording(isExplicit) ==
    [f \in ISRCFields |->
        CASE f = "isExplicit" -> isExplicit
          [] f = "recordingArtistName" -> "A"
          [] f = "recordingTitle" -> "T"
          [] f = "recordingYear" -> "2020"
          [] OTHER -> ""]

Recordings ==
    {Recording("True"), Recording("False"),
     Restrict(Recording("False"), ISRCFields \ {"id"}),
     Restrict(Recording("True"), ISRCFields \ {"isExplicit"})}

\* what one POST gives: requests raises, or r.text that json.loads rejects,
\* or a JSON object without "recordings", or one with a recordings list
Response(raised, json_ok, has_recordings, recordings) ==
    [raised |-> raised, json_ok |-> json_ok,
     has_recordings |-> has_recordings, recordings |-> recordings]

CatalogResponses ==
    {Response(TRUE, FALSE, FALSE, <<>>),
     Response(FALSE, FALSE, FALSE, <<>>),
     Response(FALSE, TRUE, FALSE, <<>>)}
    \cup {Response(FALSE, TRUE, TRUE, r) : r \in SeqsUpTo(Recordings, MaxRecordings)}

\* ISRCMetadata(**item): a dataclass constructor, TypeError unless the
\* keywords are exactly the ten fields
ISRCMetadataAccepts(item) == DOMAIN item = ISRCFields

\* Mutation of GetISRCMetadata: an empty match list yields a default record
GetISRCMetadata_DefaultOnEmpty(s, resp) ==
    IF resp.raised \/ (resp.json_ok /\ ~resp.has_recordings)
    THEN [exc |-> TRUE, ret |-> None, logs |-> <<>>]
    ELSE IF ~resp.json_ok
    THEN [exc |-> FALSE, ret |-> None, logs |-> <<"Could not decode song">>]
    ELSE IF Len(resp.recordings) = 0
    THEN [exc |-> FALSE, ret |-> Recording("False"), logs |-> <<>>]
    ELSE IF ~ISRCMetadataAccepts(resp.recordings[1])
    THEN [exc |-> TRUE, ret |-> None, logs |-> <<>>]
    ELSE [exc |-> FALSE, ret |-> resp.recordings[1], logs |-> <<>>]

\* Mutation of GetISRCMetadata: no test of the list's length, so
\* recordings[0] raises IndexError on an empty list
GetISRCMetadata_NoEmptyCheck(s, resp) ==
    IF resp.raised \/ (resp.json_ok /\ ~resp.has_recordings)
    THEN [exc |-> TRUE, ret |-> None, logs |-> <<>>]
    ELSE IF ~resp.json_ok
    THEN [exc |-> FALSE, ret |-> None, logs |-> <<"Could not decode song">>]
    ELSE IF Len(resp.recordings) = 0
    THEN [exc |-> TRUE, ret |-> None, logs |-> <<>>]
    ELSE IF ~ISRCMetadataAccepts(resp.recordings[1])
    THEN [exc |-> TRUE, ret |-> None, logs |-> <<>>]
    ELSE [exc |-> FALSE, ret |-> resp.recordings[1], logs |-> <<>>]

\* Mutation of GetISRCMetadata: the record is built from the last match
GetISRCMetadata_LastMatch(s, resp) ==
    IF resp.raised \/ (resp.json_ok /\ ~resp.has_recordings)
    THEN [exc |-> TRUE, ret |-> None, logs |-> <<>>]
    ELSE IF ~resp.json_ok
    THEN [exc |-> FALSE, ret |-> None, logs |-> <<"Could not decode song">>]
    ELSE IF Len(resp.recordings) = 0
    THEN [exc |-> FALSE, ret |-> None,
          logs |-> <<"Could not lookup information on song">>]
    ELSE IF ~ISRCMetadataAccepts(resp.recordings[Len(resp.recordings)])
    THEN [exc |-> TRUE, ret |-> None, logs |-> <<>>]
    ELSE [exc |-> FALSE, ret |-> resp.recordings[Len(resp.recordings)], logs |-> <<>>]

\* Mutation of GetISRCMetadata: a first match without all ten fields is
\* logged and given up like an empty match list
GetISRCMetadata_SkipOnMissingField(s, resp) ==
    IF resp.raised \/ (resp.json_ok /\ ~resp.has_recordings)
    THEN [exc |-> TRUE, ret |-> None, logs |-> <<>>]
    ELSE IF ~resp.json_ok
    THEN [exc |-> FALSE, ret |-> None, logs |-> <<"Could not decode song">>]
    ELSE IF Len(resp.recordings) = 0 \/ ~ISRCMetadataAccepts(resp.recordings[1])
    THEN [exc |-> FALSE, ret |-> None,
          logs |-> <<"Could not lookup information on song">>]
    ELSE [exc |-> FALSE, ret |-> resp.recordings[1], logs |-> <<>>]

\* GetISRCMetadata: exc is "an exception propagates", ret the value returned
GetISRCMetadata(s, resp) ==
    IF resp.raised
    THEN [exc |-> TRUE, ret |-> None, logs |-> <<>>]
    ELSE IF ~resp.json_ok
    THEN [exc |-> FALSE, ret |-> None, logs |-> <<"Could not decode song">>]
    ELSE IF ~resp.has_recordings
    THEN [exc |-> TRUE, ret |-> None, logs |-> <<>>]
    ELSE IF Len(resp.recordings) = 0
    THEN [exc |-> FALSE, ret |-> None,
          logs |-> <<"Could not lookup information on song">>]
    ELSE IF ~ISRCMetadataAccepts(resp.recordings[1])
    THEN [exc |-> TRUE, ret |-> None, logs |-> <<>>]
    ELSE [exc |-> FALSE, ret |-> resp.recordings[1], logs |-> <<>>]

InitialSearchPayload ==
    [recordingArtistName |-> "", recordingTitle |-> "", releaseName |-> "",
     releaseYear |-> "", recordingVersion |-> "", recordingYear |-> "",
     recordingType |-> "", start |-> 0, number |-> 100, showReleases |-> FALSE]

\* Mutation of FillSearchPayload: a year already in the template is kept
FillSearchPayload_KeepYear(payload, s) ==
    [payload EXCEPT !.recordingArtistName = s.recordingArtistName,
                    !.recordingTitle = s.recordingTitle,
                    !.recordingYear = IF payload.recordingYear = ""
                                      THEN s.recordingYear
                                      ELSE payload.recordingYear]

\* the three assignments to the global template that precede the request
FillSearchPayload(payload, s) ==
    [payload EXCEPT !.recordingArtistName = s.recordingArtistName,
                    !.recordingTitle = s.recordingTitle,
                    !.recordingYear = s.recordingYear]

\* Mutation of DoesExplicitVersionExist: only the first match is looked at
DoesExplicitVersionExist_FirstOnly(s, resp) ==
    IF resp.raised
    THEN [exc |-> TRUE, ret |-> FALSE, logs |-> <<>>]
    ELSE IF ~resp.json_ok
    THEN [exc |-> FALSE, ret |-> FALSE,
          logs |-> <<"Could not parse response from api">>]
    ELSE IF ~resp.has_recordings
    THEN [exc |-> TRUE, ret |-> FALSE, logs |-> <<>>]
    ELSE IF \E k \in 1..Len(resp.recordings) :
                "isExplicit" \notin DOMAIN resp.recordings[k]
    THEN [exc |-> TRUE, ret |-> FALSE, logs |-> <<>>]
    ELSE [exc |-> FALSE,
          ret |-> /\ Len(resp.recordings) > 0
                  /\ resp.recordings[1].isExplicit = "True",
          logs |-> <<>>]

\* DoesExplicitVersionExist after the request: the scan of dump["recordings"]
DoesExplicitVersionExist(s, resp) ==
    IF resp.raised
    THEN [exc |-> TRUE, ret |-> FALSE, logs |-> <<>>]
    ELSE IF ~resp.json_ok
    THEN [exc |-> FALSE, ret |-> FALSE,
          logs |-> <<"Could not parse response from api">>]
    ELSE IF ~resp.has_recordings
    THEN [exc |-> TRUE, ret |-> FALSE, logs |-> <<>>]
    ELSE IF \E k \in 1..Len(resp.recordings) :
                "isExplicit" \notin DOMAIN resp.recordings[k]
    THEN [exc |-> TRUE, ret |-> FALSE, logs |-> <<>>]
    ELSE [exc |-> FALSE,
          ret |-> \E k \in 1..Len(resp.recordings) :
                      resp.recordings[k].isExplicit = "True",
          logs |-> <<>>]

----------------------------------------------------------------------------
(* The store *)

\* one row of table music, in the column order of the INSERT
Row(isrc, m, explicitExists, FilePath) ==
    [isrc |-> isrc,
     recordingTitle |-> m.recordingTitle,
     isrcFailureCode |-> m.isrcFailureCode,
     recordingArtistName |-> m.recordingArtistName,
     recordingYear |-> m.recordingYear,
     isValidIsrc |-> m.isValidIsrc,
     recordingVersion |-> m.recordingVersion,
     duration |-> m.duration,
     isExplicit |-> m.isExplicit,
     doesExplicitExist |-> explicitExists,
     FilePath |-> FilePath]

\* Mutation of SelectIsrc: the WHERE clause names another column
SelectIsrc_WrongColumn(rows, isrc) == SelectSeq(rows, LAMBDA r : r.recordingTitle = isrc)

\* SELECT isrc from music where isrc = ?
SelectIsrc(rows, isrc) == SelectSeq(rows, LAMBDA r : r.isrc = isrc)

\* rows left by earlier runs, one per key of K (file path 0: not of this run)
RECURSIVE EarlierRows(_)
EarlierRows(K) ==
    IF K = {} THEN <<>>
    ELSE LET k == CHOOSE x \in K : TRUE
         IN  <<Row(k, Recording("False"), "False", 0)>> \o EarlierRows(K \ {k})

----------------------------------------------------------------------------
(* History: which case of its input a call was given *)

\* the case of a probe outcome that GetTrackMetaData distinguishes
ProbeKind(o) ==
    IF o.raised THEN "raise"
    ELSE IF \A k \in 1..Len(o.streams) : o.streams[k].codec_type # "audio"
    THEN "no audio"
    ELSE IF \E k \in 1..Len(o.streams) :
                /\ o.streams[k].codec_type = "audio"
                /\ ~o.streams[k].has_tags
                /\ \A j \in 1..(k - 1) : o.streams[j].codec_type # "audio"
    THEN "no tags"
    ELSE IF "ISRC" \notin DOMAIN o.streams[FirstAudio(o.streams)].tags
    THEN "tags without ISRC"
    ELSE "tags"

\* the case of a response to the ISRC lookup
LookupKind(resp) ==
    IF resp.raised THEN "raise"
    ELSE IF ~resp.json_ok THEN "not json"
    ELSE IF ~resp.has_recordings THEN "no recordings key"
    ELSE IF resp.recordings = <<>> THEN "empty"
    ELSE IF DOMAIN Head(resp.recordings) # ISRCFields THEN "malformed"
    ELSE IF Head(resp.recordings).isExplicit = "True" THEN "explicit"
    ELSE "clean"

\* the case of a response to the fuzzy search
SearchKind(resp) ==
    IF resp.raised THEN "raise"
    ELSE IF ~resp.json_ok THEN "not json"
    ELSE IF ~resp.has_recordings THEN "no recordings key"
    ELSE LET items == {resp.recordings[k] : k \in 1..Len(resp.recordings)}
         IN  IF \E x \in items : "isExplicit" \notin DOMAIN x THEN "malformed"
             ELSE IF \E x \in items : x.isExplicit = "True" THEN "found"
             ELSE "none"

LogEvents(logs, file) == [k \in 1..Len(logs) |-> Ev("logger.error", file, logs[k])]

----------------------------------------------------------------------------
(* The __main__ block *)

\* song_paths, sqlite3.connect, cursor(): the state when the loop is entered
Init ==
    /\ pc = "for"
    /\ song = 0
    /\ metadata = NoProbe
    /\ data = None
    /\ isrcMetadata = None
    /\ doesExplicitExist = FALSE
    /\ table_exists \in BOOLEAN
    /\ \E K \in SUBSET StoreKeys :
          /\ table_exists \/ K = {}
          /\ music = EarlierRows(K)
    /\ committed = music
    /\ search_payload = InitialSearchPayload
    /\ trace = <<>>
    /\ sleep_ms \in SleepArgs
    /\ call = NoCall
    /\ frame = NoFrame
    /\ child = NoChild

\* for song in song_paths: the next file, or the end of the loop
ForNext ==
    /\ pc = "for"
    /\ IF song < NumFiles
       THEN /\ song' = song + 1
            /\ trace' = Append(trace, Ev("logger.info", song + 1, "Starting lookup"))
            /\ pc' = "probe"
       ELSE /\ pc' = "cursor_close"
            /\ UNCHANGED <<song, trace>>
    /\ UNCHANGED <<metadata, data, isrcMetadata, doesExplicitExist, music,
                   committed, search_payload, table_exists, sleep_ms,
                   call, frame, child>>

\* GetTrackMetaData, first half: ffprobe3.probe(song_file_path)
Probe ==
    /\ pc = "probe"
    /\ \E o \in ProbeOutcomes :
          /\ metadata' = o
          /\ trace' = Append(trace, Ev("probe", song, ProbeKind(o)))
    /\ pc' = "normalize"
    /\ UNCHANGED <<song, data, isrcMetadata, doesExplicitExist, music,
                   committed, search_payload, table_exists, sleep_ms,
                   call, frame, child>>

\* GetTrackMetaData, second half, and "if data is None: continue"
Normalize ==
    /\ pc = "normalize"
    /\ LET r == GetTrackMetaData(metadata, song)
       IN  /\ data' = r.ret
           /\ trace' = trace
                       \o (IF metadata.raised THEN <<>> ELSE <<Ev("normalize", song, "")>>)
                       \o LogEvents(r.logs, song)
           /\ pc' = IF r.exc THEN "except"
                    ELSE IF IsNone(r.ret) THEN "for" ELSE "select"
    /\ metadata' = NoProbe
    /\ UNCHANGED <<song, isrcMetadata, doesExplicitExist, music,
                   committed, search_payload, table_exists, sleep_ms,
                   call, frame, child>>

\* Mutation of DedupCheck: the "continue" after the log line is missing
DedupCheck_NoContinue ==
    /\ pc = "select"
    /\ IF ~table_exists
       THEN /\ trace' = Append(trace, Ev("select", song, data.ISRC))
            /\ pc' = "except"
       ELSE LET rows == SelectIsrc(music, data.ISRC)
            IN  /\ trace' = trace \o <<Ev("select", song, data.ISRC)>>
                      \o (IF Len(rows) # 0
                          THEN <<Ev("logger.info", song, "Song already in db. Skipping")>>
                          ELSE <<>>)
                /\ pc' = "lookup"
    /\ UNCHANGED <<song, metadata, data, isrcMetadata, doesExplicitExist, music,
                   committed, search_payload, table_exists, sleep_ms,
                   call, frame, child>>

\* the SELECT and "if len(rows) != 0: continue"
DedupCheck ==
    /\ pc = "select"
    /\ IF ~table_exists
       THEN /\ trace' = Append(trace, Ev("select", song, data.ISRC))
            /\ pc' = "except"
       ELSE LET rows == SelectIsrc(music, data.ISRC)
            IN  IF Len(rows) # 0
                THEN /\ trace' = trace \o <<Ev("select", song, data.ISRC),
                                            Ev("logger.info", song, "Song already in db. Skipping")>>
                     /\ pc' = "for"
                ELSE /\ trace' = Append(trace, Ev("select", song, data.ISRC))
                     /\ pc' = "lookup"
    /\ UNCHANGED <<song, metadata, data, isrcMetadata, doesExplicitExist, music,
                   committed, search_payload, table_exists, sleep_ms,
                   call, frame, child>>

\* isrcMetadata = GetISRCMetadata(data) and "if isrcMetadata is None: continue"
Lookup ==
    /\ pc = "lookup"
    /\ \E resp \in CatalogResponses :
          LET r == GetISRCMetadata(data, resp)
          IN  /\ trace' = trace \o <<Ev("isrc_request", song, data.ISRC),
                                      Ev("isrc_response", song, LookupKind(resp))>>
                                \o LogEvents(r.logs, song)
              /\ IF r.exc
                 THEN /\ pc' = "except"
                      /\ UNCHANGED isrcMetadata
                 ELSE /\ isrcMetadata' = r.ret
                      /\ pc' = IF IsNone(r.ret) THEN "for" ELSE "resolve"
    /\ UNCHANGED <<song, metadata, data, doesExplicitExist, music,
                   committed, search_payload, table_exists, sleep_ms,
                   call, frame, child>>

\* Mutation of Resolve: the search is made whatever the record's explicit flag
Resolve_AlwaysSearch ==
    /\ pc = "resolve"
    /\ \E resp \in CatalogResponses :
          LET r == DoesExplicitVersionExist(isrcMetadata, resp)
          IN  /\ search_payload' = FillSearchPayload(search_payload, isrcMetadata)
              /\ trace' = trace \o <<Ev("resolve", song, "search"),
                                      Ev("search_request", song, isrcMetadata.recordingTitle),
                                      Ev("search_response", song, SearchKind(resp))>>
                                \o LogEvents(r.logs, song)
              /\ IF r.exc
                 THEN /\ pc' = "except"
                      /\ UNCHANGED doesExplicitExist
                 ELSE /\ doesExplicitExist' = r.ret
                      /\ pc' = "insert"
    /\ UNCHANGED <<song, metadata, data, isrcMetadata, music,
                   committed, table_exists, sleep_ms,
                   call, frame, child>>

\* if isrcMetadata.isExplicit == "True": ... else: DoesExplicitVersionExist(...)
Resolve ==
    /\ pc = "resolve"
    /\ IF isrcMetadata.isExplicit = "True"
       THEN /\ doesExplicitExist' = TRUE
            /\ trace' = Append(trace, Ev("resolve", song, "explicit"))
            /\ pc' = "insert"
            /\ UNCHANGED search_payload
       ELSE \E resp \in CatalogResponses :
               LET r == DoesExplicitVersionExist(isrcMetadata, resp)
               IN  /\ search_payload' = FillSearchPayload(search_payload, isrcMetadata)
                   /\ trace' = trace \o <<Ev("resolve", song, "search"),
                                           Ev("search_request", song, isrcMetadata.recordingTitle),
                                           Ev("search_response", song, SearchKind(resp))>>
                                     \o LogEvents(r.logs, song)
                   /\ IF r.exc
                      THEN /\ pc' = "except"
                           /\ UNCHANGED doesExplicitExist
                      ELSE /\ doesExplicitExist' = r.ret
                           /\ pc' = "insert"
    /\ UNCHANGED <<song, metadata, data, isrcMetadata, music,
                   committed, table_exists, sleep_ms,
                   call, frame, child>>

\* Mutation of Insert: the statement is executed twice
Insert_Twice ==
    /\ pc = "insert"
    /\ LET row == Row(data.ISRC, isrcMetadata, PyStr(doesExplicitExist), data.FilePath)
       IN  music' = music \o <<row, row>>
    /\ trace' = trace \o <<Ev("insert", song, data.ISRC),
                           Ev("logger.info", song, "Finished lookup")>>
    /\ pc' = "sleep"
    /\ UNCHANGED <<song, metadata, data, isrcMetadata, doesExplicitExist,
                   committed, search_payload, table_exists, sleep_ms,
                   call, frame, child>>

\* Mutation of Insert: the table is emptied before the row is written
Insert_Replace ==
    /\ pc = "insert"
    /\ music' = <<Row(data.ISRC, isrcMetadata, PyStr(doesExplicitExist), data.FilePath)>>
    /\ trace' = trace \o <<Ev("insert", song, data.ISRC),
                           Ev("logger.info", song, "Finished lookup")>>
    /\ pc' = "sleep"
    /\ UNCHANGED <<song, metadata, data, isrcMetadata, doesExplicitExist,
                   committed, search_payload, table_exists, sleep_ms,
                   call, frame, child>>

\* Mutation of Insert: the connection commits each statement as it is executed
Insert_AutoCommit ==
    /\ pc = "insert"
    /\ music' = Append(music, Row(data.ISRC, isrcMetadata,
                                  PyStr(doesExplicitExist), data.FilePath))
    /\ committed' = music'
    /\ trace' = trace \o <<Ev("insert", song, data.ISRC),
                           Ev("logger.info", song, "Finished lookup")>>
    /\ pc' = "sleep"
    /\ UNCHANGED <<song, metadata, data, isrcMetadata, doesExplicitExist,
                   search_payload, table_exists, sleep_ms,
                   call, frame, child>>

\* the INSERT and the two lines after it
Insert ==
    /\ pc = "insert"
    /\ music' = Append(music, Row(data.ISRC, isrcMetadata,
                                  PyStr(doesExplicitExist), data.FilePath))
    /\ trace' = trace \o <<Ev("insert", song, data.ISRC),
                           Ev("logger.info", song, "Finished lookup")>>
    /\ pc' = "sleep"
    /\ UNCHANGED <<song, metadata, data, isrcMetadata, doesExplicitExist,
                   committed, search_payload, table_exists, sleep_ms,
                   call, frame, child>>

\* sleep(args1.sleep/1000): ValueError for a negative length
Sleep ==
    /\ pc = "sleep"
    /\ IF sleep_ms < 0
       THEN /\ pc' = "except"
            /\ UNCHANGED trace
       ELSE /\ trace' = Append(trace, SleepEv(song, sleep_ms))
            /\ pc' = "for"
    /\ UNCHANGED <<song, metadata, data, isrcMetadata, doesExplicitExist, music,
                   committed, search_payload, table_exists, sleep_ms,
                   call, frame, child>>

\* Mutation of Except: the try statement sits inside the loop body
Except_Continue ==
    /\ pc = "except"
    /\ trace' = Append(trace, Ev("except", song, ""))
    /\ pc' = "for"
    /\ UNCHANGED <<song, metadata, data, isrcMetadata, doesExplicitExist, music,
                   committed, search_payload, table_exists, sleep_ms,
                   call, frame, child>>

\* Mutation of Except: the cleanup follows the loop inside the try, with no finally
Except_NoFinally ==
    /\ pc = "except"
    /\ trace' = Append(trace, Ev("except", song, ""))
    /\ pc' = "done"
    /\ UNCHANGED <<song, metadata, data, isrcMetadata, doesExplicitExist, music,
                   committed, search_payload, table_exists, sleep_ms,
                   call, frame, child>>

\* except Exception as e: print(e)
Except ==
    /\ pc = "except"
    /\ trace' = Append(trace, Ev("except", song, ""))
    /\ pc' = "cursor_close"
    /\ UNCHANGED <<song, metadata, data, isrcMetadata, doesExplicitExist, music,
                   committed, search_payload, table_exists, sleep_ms,
                   call, frame, child>>

\* finally: db_cursor.close()
CursorClose ==
    /\ pc = "cursor_close"
    /\ trace' = Append(trace, Ev("cursor.close", song, ""))
    /\ pc' = "commit"
    /\ UNCHANGED <<song, metadata, data, isrcMetadata, doesExplicitExist, music,
                   committed, search_payload, table_exists, sleep_ms,
                   call, frame, child>>

\* finally: db_connection.commit()
Commit ==
    /\ pc = "commit"
    /\ committed' = music
    /\ trace' = Append(trace, Ev("commit", song, ""))
    /\ pc' = "close"
    /\ UNCHANGED <<song, metadata, data, isrcMetadata, doesExplicitExist, music,
                   search_payload, table_exists, sleep_ms,
                   call, frame, child>>

\* finally: db_connection.close()
ConnClose ==
    /\ pc = "close"
    /\ trace' = Append(trace, Ev("connection.close", song, ""))
    /\ pc' = "done"
    /\ UNCHANGED <<song, metadata, data, isrcMetadata, doesExplicitExist, music,
                   committed, search_payload, table_exists, sleep_ms,
                   call, frame, child>>

Next ==
    \/ ForNext
    \/ Probe
    \/ Normalize
    \/ DedupCheck
    \/ Lookup
    \/ Resolve
    \/ Insert
    \/ Sleep
    \/ Except
    \/ CursorClose
    \/ Commit
    \/ ConnClose

Spec == Init /\ [][Next]_vars

\* every call of the loop returns, so the sequential program keeps stepping
FairSpec == Spec /\ WF_vars(Next)

----------------------------------------------------------------------------
(* Functions taken alone *)

\* the variables of the __main__ block
main_vars == <<pc, song, metadata, data, isrcMetadata, doesExplicitExist, music,
               committed, search_payload, trace, table_exists, sleep_ms>>

\* the __main__ block is not running
MainIdle ==
    /\ pc = "idle"
    /\ song = 0
    /\ metadata = NoProbe
    /\ data = None
    /\ isrcMetadata = None
    /\ doesExplicitExist = FALSE
    /\ music = <<>>
    /\ committed = <<>>
    /\ search_payload = InitialSearchPayload
    /\ trace = <<>>
    /\ table_exists = TRUE
    /\ sleep_ms = DefaultSleep

\* the songs GetTrackMetaData can hand to GetISRCMetadata
Songs == {SongMetadata("", "", "T", "", k, 1) : k \in StoreKeys}

\* GetISRCMetadata(song) is called with the catalog about to answer resp
LookupInit ==
    /\ MainIdle
    /\ frame = NoFrame
    /\ child = NoChild
    /\ \E s \in Songs, resp \in CatalogResponses :
          call = [fn |-> "GetISRCMetadata", phase |-> "called",
                  song |-> s, resp |-> resp,
                  out |-> [exc |-> FALSE, ret |-> None, logs |-> <<>>]]

\* the call runs to its return or to the exception it lets out
LookupReturn ==
    /\ call.fn = "GetISRCMetadata"
    /\ call.phase = "called"
    /\ call' = [call EXCEPT !.phase = "returned",
                            !.out = GetISRCMetadata(call.song, call.resp)]
    /\ UNCHANGED <<main_vars, frame, child>>

LookupSpec == LookupInit /\ [][LookupReturn]_vars

----------------------------------------------------------------------------
(* Reading the history *)

Idx == 1..Len(trace)
Has(op, f) == \E k \in Idx : trace[k].op = op /\ trace[k].file = f
Count(op, f) == Cardinality({k \in Idx : trace[k].op = op /\ trace[k].file = f})
HasKind(op, f, kinds) ==
    \E k \in Idx : trace[k].op = op /\ trace[k].file = f /\ trace[k].arg \in kinds
Files == 1..NumFiles
RowsOf(f) == {r \in 1..Len(music) : music[r].FilePath = f}
CleanupPcs == {"cursor_close", "commit", "close", "done"}

\* the store held a row for the key of trace[k] when trace[k] happened:
\* a row of an earlier run, or one inserted earlier in this run
HadRowAt(k) ==
    /\ table_exists
    /\ \/ \E r \in RowsOf(0) : music[r].isrc = trace[k].arg
       \/ \E j \in 1..(k - 1) : trace[j].op = "insert" /\ trace[j].arg = trace[k].arg

DedupHit(f) == \E k \in Idx : trace[k].op = "select" /\ trace[k].file = f /\ HadRowAt(k)
DedupMiss(f) ==
    \E k \in Idx : trace[k].op = "select" /\ trace[k].file = f
                   /\ table_exists /\ ~HadRowAt(k)

ProbeOk(f) == HasKind("probe", f, {"tags", "tags without ISRC"})
LookupOk(f) == HasKind("isrc_response", f, {"explicit", "clean"})
ResolveOk(f) ==
    \/ HasKind("resolve", f, {"explicit"})
    \/ HasKind("search_response", f, {"found", "none", "not json"})
AllStagesOk(f) == ProbeOk(f) /\ DedupMiss(f) /\ LookupOk(f) /\ ResolveOk(f)

----------------------------------------------------------------------------
(* Claims *)

\* C1: a file whose ISRC has a row in the store at its dedup check (a row of an
\* earlier run or one inserted earlier in this run) gets no catalog request and
\* no row, and the loop goes on to the next file without aborting.
C1_SkipOnExistingRow ==
    \A f \in Files : DedupHit(f) =>
        /\ ~Has("isrc_request", f)
        /\ ~Has("search_request", f)
        /\ ~Has("insert", f)
        /\ RowsOf(f) = {}
        /\ ~Has("except", f)
        /\ song = f => pc \in (IF f = NumFiles THEN {"for"} \cup CleanupPcs ELSE {"for"})

C1_Witness ==
    /\ DedupHit(1)
    /\ \E r \in RowsOf(0) : \E k \in Idx :
          trace[k].op = "select" /\ trace[k].file = 1 /\ trace[k].arg = music[r].isrc
    /\ Has("probe", 2)

\* C2: from a store with at most one row per ISRC, a run leaves at most one row
\* per ISRC, also when several files share one ISRC.
C2_AtMostOneRowPerIsrc ==
    \A j, k \in 1..Len(music) : music[j].isrc = music[k].isrc => j = k

C2_Witness ==
    /\ pc = "done"
    /\ Has("insert", 1)
    /\ \E j, k \in Idx :
          /\ trace[j].op = "select" /\ trace[j].file = 1
          /\ trace[k].op = "select" /\ trace[k].file = 2
          /\ trace[j].arg = trace[k].arg

\* C3: a file adds exactly one row when probe, normalization, dedup check (no
\* row found), ISRC lookup and explicit resolution all succeed for it, and no
\* row otherwise; a file whose lookup gives an empty match list adds no row.
C3_OneRowIffAllStagesOk ==
    \A f \in Files :
        /\ Cardinality(RowsOf(f)) = Count("insert", f)
        /\ Cardinality(RowsOf(f)) <= 1
        /\ RowsOf(f) # {} => AllStagesOk(f)
        /\ (AllStagesOk(f) /\ ~(song = f /\ pc = "insert")) => RowsOf(f) # {}
        /\ HasKind("isrc_response", f, {"empty"}) => RowsOf(f) = {}

C3_Witness ==
    /\ pc = "done"
    /\ HasKind("isrc_response", 1, {"empty"}) /\ RowsOf(1) = {}
    /\ AllStagesOk(2) /\ Cardinality(RowsOf(2)) = 1

\* C4: no step updates or deletes a row: every row present before a step is
\* present after it at the same place with the same values.
C4_RowsOnlyGrow ==
    [][/\ Len(music') >= Len(music)
       /\ \A r \in 1..Len(music) : music'[r] = music[r]]_vars

C4_Witness ==
    /\ pc = "done"
    /\ RowsOf(0) # {}
    /\ \E f \in Files : RowsOf(f) # {}

\* the stage events of file f, in the order they happened
StageNames == <<"probe", "normalize", "select", "isrc_request", "resolve", "insert">>
StageSet == {StageNames[n] : n \in 1..Len(StageNames)}
StagesOf(f) == SelectSeq(trace, LAMBDA e : e.file = f /\ e.op \in StageSet)

\* C5: the stages of a file run in the order probe, normalize, dedup check, ISRC
\* lookup, explicit resolution, insert; a stage runs only if the stages before
\* it succeeded for that file; files are handled one after the other.
C5_StageOrder ==
    /\ \A f \in Files :
          /\ Len(StagesOf(f)) <= Len(StageNames)
          /\ \A n \in 1..Len(StagesOf(f)) : StagesOf(f)[n].op = StageNames[n]
          /\ Has("normalize", f) => ~HasKind("probe", f, {"raise"})
          /\ Has("select", f) => ProbeOk(f)
          /\ Has("isrc_request", f) => DedupMiss(f)
          /\ Has("resolve", f) => LookupOk(f)
          /\ Has("search_request", f) => HasKind("resolve", f, {"search"})
          /\ Has("insert", f) => ResolveOk(f)
    /\ \A j, k \in Idx : j < k => trace[j].file <= trace[k].file

C5_Witness ==
    /\ pc = "done"
    /\ \A f \in Files : Len(StagesOf(f)) = Len(StageNames)

\* the files the loop gave up on for a reason of their own
PerFileFailure(f) ==
    \/ HasKind("probe", f, {"raise", "no audio", "no tags"})
    \/ HasKind("isrc_response", f, {"not json", "empty"})

\* C6: a probe that raises, a file without audio stream, an audio stream
\* without tag dictionary, a catalog response that is not JSON and an empty
\* match list are not fatal: the file is skipped, the loop is not aborted, and
\* the remaining files are still handled.
C6_PerFileFailureNotFatal ==
    /\ \A f \in Files : PerFileFailure(f) =>
          /\ ~Has("except", f)
          /\ RowsOf(f) = {}
          /\ song = f => pc \in (IF f = NumFiles
                                 THEN {"normalize", "for"} \cup CleanupPcs
                                 ELSE {"normalize", "for"})
    /\ (pc \in CleanupPcs /\ \A f \in Files : ~Has("except", f))
          => \A f \in Files : Has("probe", f)

C6_Witness ==
    /\ pc = "done"
    /\ HasKind("probe", 1, {"no tags"})
    /\ HasKind("isrc_response", 2, {"empty"})

CleanupOps == <<"cursor.close", "commit", "connection.close">>

\* trace[k] is an error no handler inside the loop body takes
Unhandled(k) ==
    \/ trace[k].op = "isrc_response"
          /\ trace[k].arg \in {"raise", "no recordings key", "malformed"}
    \/ trace[k].op = "search_response"
          /\ trace[k].arg \in {"raise", "no recordings key", "malformed"}
    \/ trace[k].op = "select" /\ ~table_exists

\* C7: an error that is not a per-file failure aborts the loop: the handler of
\* the try runs next, after it nothing but the cleanup happens (no stage of a
\* later file, no insert), and the store ends committed and closed.
C7_UnhandledErrorAborts ==
    /\ \A k \in Idx : Unhandled(k) =>
          IF k = Len(trace) THEN pc = "except" ELSE trace[k + 1].op = "except"
    /\ \A k \in Idx : (trace[k].op = "insert" /\ sleep_ms < 0) =>
          IF k + 1 = Len(trace) THEN pc \in {"sleep", "except"}
          ELSE trace[k + 2].op = "except"
    /\ \A k \in Idx : trace[k].op = "except" =>
          LET tail == SubSeq(trace, k + 1, Len(trace))
          IN  /\ pc \in CleanupPcs
              /\ Len(tail) <= Len(CleanupOps)
              /\ \A n \in 1..Len(tail) : tail[n].op = CleanupOps[n]
              /\ Len(music) = Cardinality(RowsOf(0))
                    + Cardinality({j \in 1..k : trace[j].op = "insert"})
              /\ pc = "done" => Len(tail) = Len(CleanupOps) /\ committed = music

C7_Witness ==
    /\ pc = "done"
    /\ Has("except", 1)
    /\ ~Has("probe", 2)
    /\ committed = music

CleanupAt == {k \in Idx : trace[k].op \in {CleanupOps[n] : n \in 1..Len(CleanupOps)}}

\* once the cleanup has begun, the history ends with the cleanup steps in
\* order, each at most once, and nothing else follows them
C8_CleanupOnceInOrder ==
    /\ CleanupAt # {} =>
          LET first == CHOOSE k \in CleanupAt : \A j \in CleanupAt : k <= j
              tail == SubSeq(trace, first, Len(trace))
          IN  /\ Len(tail) <= Len(CleanupOps)
              /\ \A n \in 1..Len(tail) : tail[n].op = CleanupOps[n]
              /\ pc \in CleanupPcs
    /\ pc = "done" => Cardinality(CleanupAt) = Len(CleanupOps)
    /\ pc = "done" => committed = music

\* C8: on every exit path of the loop (all files handled, or the loop aborted)
\* the cleanup eventually runs, exactly once, as close cursor, commit, close
\* connection, and no query or insert follows it.
C8_CleanupOnEveryExit == []C8_CleanupOnceInOrder /\ <>(pc = "done")

C8_Witness ==
    /\ pc = "done"
    /\ \A f \in Files : Has("probe", f) /\ ~Has("except", f)
    /\ Cardinality(CleanupAt) = Len(CleanupOps)

IsRequest(e) == e.op \in {"isrc_request", "search_request"}

\* C9: between the catalog requests made for two different files there is a
\* sleep of the configured interval.
C9_SleepBetweenFiles ==
    \A j, k \in Idx :
        (j < k /\ IsRequest(trace[j]) /\ IsRequest(trace[k])
               /\ trace[j].file # trace[k].file)
        => \E m \in (j + 1)..(k - 1) : trace[m].op = "sleep" /\ trace[m].ms = sleep_ms

\* C10: a record flagged explicit gets no fuzzy search and the stored
\* counterpart flag "True"; any other record gets exactly one fuzzy search and
\* the stored flag is that search's result. Every row whose explicit flag is
\* "True" has the counterpart flag "True".
C10_ExplicitResolution ==
    /\ \A f \in Files :
          LET explicit == HasKind("isrc_response", f, {"explicit"})
              found == HasKind("search_response", f, {"found"})
          IN  /\ Count("search_request", f) =
                    (IF Has("resolve", f) /\ ~explicit THEN 1 ELSE 0)
              /\ \A r \in RowsOf(f) :
                    /\ music[r].isExplicit = (IF explicit THEN "True" ELSE "False")
                    /\ music[r].doesExplicitExist =
                          (IF explicit \/ found THEN "True" ELSE "False")
    /\ \A r \in 1..Len(music) :
          music[r].isExplicit = "True" => music[r].doesExplicitExist = "True"

C10_Witness ==
    /\ pc = "done"
    /\ HasKind("isrc_response", 1, {"explicit"})
    /\ \E r \in RowsOf(1) : music[r].doesExplicitExist = "True"
    /\ HasKind("search_response", 2, {"none"})
    /\ \E r \in RowsOf(2) : music[r].doesExplicitExist = "False"

\* tag dictionaries over the five keys GetTrackMetaData reads: any subset of
\* the keys, two dictionaries per subset with different values
TagKeys == {"ARTIST", "album_artist", "TITLE", "DATE", "ISRC"}
TagValue(k, v) ==
    CASE k = "ARTIST" -> IF v = 1 THEN "A1" ELSE "A2"
      [] k = "album_artist" -> IF v = 1 THEN "AA1" ELSE "AA2"
      [] k = "TITLE" -> IF v = 1 THEN "T1" ELSE "T2"
      [] k = "DATE" -> IF v = 1 THEN "2020" ELSE "2021"
      [] OTHER -> IF v = 1 THEN "X1" ELSE "X2"
AllTagDicts == {[k \in K |-> TagValue(k, v)] : K \in SUBSET TagKeys, v \in {1, 2}}
AllStreams ==
    {Stream("video", FALSE, NoTags), Stream("audio", FALSE, NoTags)}
    \cup {Stream("audio", TRUE, t) : t \in AllTagDicts}
AllProbeOutcomes ==
    {[raised |-> TRUE, streams |-> <<>>]}
    \cup {[raised |-> FALSE, streams |-> x] : x \in SeqsUpTo(AllStreams, MaxStreams)}

\* GetTrackMetaData(song_file_path) is called with the prober about to give probed
TrackMetaInit ==
    /\ MainIdle
    /\ frame = NoFrame
    /\ child = NoChild
    /\ \E o \in AllProbeOutcomes, path \in {1, 2} :
          call = [fn |-> "GetTrackMetaData", phase |-> "called",
                  probed |-> o, path |-> path,
                  out |-> [exc |-> FALSE, ret |-> None, logs |-> <<>>]]

TrackMetaReturn ==
    /\ call.fn = "GetTrackMetaData"
    /\ call.phase = "called"
    /\ call' = [call EXCEPT !.phase = "returned",
                            !.out = GetTrackMetaData(call.probed, call.path)]
    /\ UNCHANGED <<main_vars, frame, child>>

TrackMetaSpec == TrackMetaInit /\ [][TrackMetaReturn]_vars

----------------------------------------------------------------------------
(* Claims on GetISRCMetadata *)

LookupReturned == call.fn = "GetISRCMetadata" /\ call.phase = "returned"
\* the catalog answered (the POST itself did not raise)
Answered == ~call.resp.raised
NotJson == ~call.resp.json_ok
EmptyMatches == call.resp.json_ok /\ call.resp.has_recordings /\ call.resp.recordings = <<>>

\* C11 as stated: None without raising for a response that is not JSON or has
\* an empty match list; otherwise a record built from the first match only.
C11_Original ==
    (LookupReturned /\ Answered) =>
        IF NotJson \/ EmptyMatches
        THEN ~call.out.exc /\ IsNone(call.out.ret)
        ELSE /\ ~call.out.exc
             /\ call.resp.recordings # <<>>
             /\ call.out.ret = Head(call.resp.recordings)

\* C11, amended: None without raising for a response that is not JSON or has an
\* empty match list; for a response with a match list whose first item has
\* exactly the ten fields, the record of that first item, whatever follows it.
C11_NoneOrFirstMatch ==
    (LookupReturned /\ Answered) =>
        /\ (NotJson \/ EmptyMatches) => (~call.out.exc /\ IsNone(call.out.ret))
        /\ (/\ call.resp.json_ok
            /\ call.resp.has_recordings
            /\ call.resp.recordings # <<>>
            /\ DOMAIN Head(call.resp.recordings) = ISRCFields)
           => (~call.out.exc /\ call.out.ret = Head(call.resp.recordings))

C11_Witness ==
    /\ LookupReturned
    /\ Len(call.resp.recordings) = 2
    /\ call.resp.recordings[2] # call.resp.recordings[1]
    /\ ~call.out.exc
    /\ call.out.ret = call.resp.recordings[1]

----------------------------------------------------------------------------
(* Claims on GetTrackMetaData *)

TrackMetaReturned == call.fn = "GetTrackMetaData" /\ call.phase = "returned"
AudioAt(k) == call.probed.streams[k].codec_type = "audio"
\* k is the place of the first audio stream of the probe result
IsFirstAudio(k) ==
    /\ k \in 1..Len(call.probed.streams)
    /\ AudioAt(k)
    /\ \A j \in 1..(k - 1) : ~AudioAt(j)
TagIs(t, key, value, default) ==
    IF key \in DOMAIN t THEN value = t[key] ELSE value = default

\* C12: when the probe result has an audio stream and the first one carries a
\* tag dictionary, the record is read from that dictionary only: artist,
\* album-artist, title and year (DATE) are the tag or "", ISRC is the tag or
\* "error", and the file path is the input path.
C12_RecordFromFirstAudioTags ==
    TrackMetaReturned =>
        \A k \in 1..Len(call.probed.streams) :
            (~call.probed.raised /\ IsFirstAudio(k) /\ call.probed.streams[k].has_tags) =>
                LET t == call.probed.streams[k].tags
                    m == call.out.ret
                IN  /\ ~call.out.exc
                    /\ ~IsNone(m)
                    /\ TagIs(t, "ARTIST", m.Artist, "")
                    /\ TagIs(t, "album_artist", m.AlbumArtist, "")
                    /\ TagIs(t, "TITLE", m.Title, "")
                    /\ TagIs(t, "DATE", m.Year, "")
                    /\ TagIs(t, "ISRC", m.ISRC, "error")
                    /\ m.FilePath = call.path

C12_Witness ==
    /\ TrackMetaReturned
    /\ Len(call.probed.streams) = 2
    /\ AudioAt(1) /\ AudioAt(2)
    /\ DOMAIN call.probed.streams[1].tags = {"ARTIST", "DATE"}
    /\ DOMAIN call.probed.streams[2].tags = TagKeys
    /\ call.probed.streams[1].has_tags
    /\ call.out.ret.Artist = "A1" /\ call.out.ret.Title = ""
    /\ call.out.ret.ISRC = "error" /\ call.out.ret.FilePath = 2

\* C13: None, and no exception, when the probe fails, when there is no audio
\* stream (no stream at all, or only others), and when the first audio stream
\* has no tag dictionary, even if a later audio stream has one.
C13_AbsenceWithoutRaising ==
    TrackMetaReturned =>
        /\ ~call.out.exc
        /\ (\/ call.probed.raised
            \/ \A k \in 1..Len(call.probed.streams) : ~AudioAt(k)
            \/ \E k \in 1..Len(call.probed.streams) :
                  IsFirstAudio(k) /\ ~call.probed.streams[k].has_tags)
           => IsNone(call.out.ret)

C13_Witness ==
    /\ TrackMetaReturned
    /\ Len(call.probed.streams) = 2
    /\ AudioAt(1) /\ ~call.probed.streams[1].has_tags
    /\ AudioAt(2) /\ call.probed.streams[2].has_tags
    /\ IsNone(call.out.ret)

\* ---------------------------------------------------------------------------
\* ffprobe3.probe taken alone: one call, and the child process it launches
\* ---------------------------------------------------------------------------

\* communicate_timeout arguments: None, a non-number, numbers below, at and
\* above zero, and the two floats that are neither (nan) nor finite (inf)
Timeout(kind, v) == [kind |-> kind, v |-> v]

Timeouts ==
    {Timeout("None", 0), Timeout("str", 0), Timeout("nan", 0), Timeout("inf", 0)}
        \cup {Timeout("num", v) : v \in {0 - 1, 0, 1}}

\* isinstance(communicate_timeout, (int, float))
IsNumeric(t) == t.kind \in {"num", "nan", "inf"}

\* communicate_timeout <= 0.0 as Python compares floats: every comparison
\* with nan is False
NonPositive(t) ==
    CASE t.kind = "num" -> t.v <= 0
      [] t.kind = "inf" -> FALSE
      [] t.kind = "nan" -> FALSE
      [] OTHER -> FALSE

\* ffprobe_cmd_override: None, the path of a file, a path that is no file
Overrides == {"None", "file", "nofile"}

\* media_filename arguments, as character sequences
LowerChars == {"a", "h"}
SchemeChars == LowerChars \cup {"1", "-"}

MediaNames ==
    { <<"h", "a", ":", "/", "/", "x">>,
      <<"a", "1", "-", ":", "/", "/">>,
      <<"A", ":", "/", "/", "x">>,
      <<"1", "a", ":", "/", "/", "x">>,
      <<"a", ".", "m">>,
      <<"a", ":", "/", "x">>,
      <<"x", "a", ":", "/", "/">>,
      <<>> }

\* _URI_SCHEME.match(media_filename) is not None
URI_SCHEME_Matches(name) ==
    \E k \in 1..Len(name) :
        /\ name[1] \in LowerChars
        /\ \A j \in 2..k : name[j] \in SchemeChars
        /\ Len(name) >= k + 3
        /\ SubSeq(name, k + 1, k + 3) = <<":", "/", "/">>

\* what the child writes to stdout by the time it is collected: a JSON
\* object, JSON that is no object, or text json.loads rejects (empty or cut)
OutKinds == {"object", "scalar", "invalid"}
ErrTexts == {"", "msg"}
ExitCodes == {0, 1}
\* Popen.returncode of a child ended by proc.kill()
KilledStatus == 0 - 9

NoResult == [kind |-> "", exit_status |-> 0, stderr |-> ""]
Raised(kind) == [kind |-> kind, exit_status |-> 0, stderr |-> ""]

ProbeFrame(t, o, v, m, f) ==
    [pc |-> "validate", timeout |-> t, override |-> o, verify |-> v,
     media |-> m, isfile |-> f, outs |-> "", errs |-> "",
     timed_out |-> FALSE, spawned |-> 0, result |-> NoResult]

ProbeInit ==
    /\ MainIdle
    /\ call = NoCall
    /\ child = NoChild
    /\ \E t \in Timeouts, o \in Overrides, v \in BOOLEAN,
          m \in MediaNames, f \in BOOLEAN :
          frame = ProbeFrame(t, o, v, m, f)

ProbeDone(r) == [frame EXCEPT !.pc = "done", !.result = r]

\* the argument checks of probe, in the order the code makes them
ValidateArgs(fr) ==
    IF fr.override = "nofile" THEN "FFprobeOverrideFileError"
    ELSE IF fr.timeout.kind # "None" /\ ~IsNumeric(fr.timeout)
        THEN "FFprobeInvalidArgumentError"
    ELSE IF fr.timeout.kind # "None" /\ NonPositive(fr.timeout)
        THEN "FFprobeInvalidArgumentError"
    ELSE IF fr.verify /\ ~URI_SCHEME_Matches(fr.media) /\ ~fr.isfile
        THEN "FFprobeMediaFileError"
    ELSE ""

ProbeValidate ==
    /\ frame.pc = "validate"
    /\ frame' = IF ValidateArgs(frame) = ""
                THEN [frame EXCEPT !.pc = "popen"]
                ELSE ProbeDone(Raised(ValidateArgs(frame)))
    /\ UNCHANGED <<main_vars, call, child>>

\* subprocess.Popen: the launch fails with one of the exceptions the code
\* wraps, or the child runs
ProbePopen ==
    /\ frame.pc = "popen"
    /\ \/ /\ \E e \in {"FFprobeExecutableError", "FFprobePopenError"} : frame' = ProbeDone(Raised(e))
          /\ UNCHANGED child
       \/ /\ frame' = [frame EXCEPT !.pc = "communicate",
                                    !.spawned = frame.spawned + 1]
          /\ child' = [state |-> "running", returncode |-> 0,
                       out |-> "", err |-> ""]
    /\ UNCHANGED <<main_vars, call>>

\* the child ends by itself, having written its output
ChildExit ==
    /\ child.state = "running"
    /\ \E c \in ExitCodes, o \in OutKinds, e \in ErrTexts :
          child' = [state |-> "exited", returncode |-> c, out |-> o, err |-> e]
    /\ UNCHANGED <<main_vars, call, frame>>

\* what proc.communicate(timeout=t) raises before it waits at all: the
\* selector cannot convert a timeout that is nan or infinite
CommunicateRejects(t) ==
    CASE t.kind = "nan" -> "ValueError"
      [] t.kind = "inf" -> "OverflowError"
      [] OTHER -> ""

\* proc.communicate(timeout=communicate_timeout)
ProbeCommunicate ==
    /\ frame.pc = "communicate"
    /\ \/ /\ CommunicateRejects(frame.timeout) # ""
          /\ frame' = ProbeDone(Raised(CommunicateRejects(frame.timeout)))
       \/ /\ CommunicateRejects(frame.timeout) = ""
          /\ child.state = "exited"
          /\ frame' = [frame EXCEPT !.pc = "parse", !.outs = child.out,
                                    !.errs = child.err]
       \/ /\ CommunicateRejects(frame.timeout) = ""
          /\ frame.timeout.kind # "None"
          /\ child.state = "running"
          /\ frame' = [frame EXCEPT !.pc = "kill", !.timed_out = TRUE]
    /\ UNCHANGED <<main_vars, call, child>>

ProbeKill_Respawn ==
    /\ frame.pc = "kill"
    /\ frame' = [frame EXCEPT !.pc = "communicate",
                              !.spawned = frame.spawned + 1]
    /\ child' = [state |-> "running", returncode |-> 0, out |-> "", err |-> ""]
    /\ UNCHANGED <<main_vars, call>>

\* except subprocess.TimeoutExpired: proc.kill(); nothing happens to a child
\* that has ended meanwhile
ProbeKill ==
    /\ frame.pc = "kill"
    /\ frame' = [frame EXCEPT !.pc = "collect"]
    /\ IF child.state = "running"
       THEN \E o \in OutKinds, e \in ErrTexts :
               child' = [state |-> "killed", returncode |-> KilledStatus,
                         out |-> o, err |-> e]
       ELSE UNCHANGED child
    /\ UNCHANGED <<main_vars, call>>

\* the second proc.communicate(), without a timeout
ProbeCollect ==
    /\ frame.pc = "collect"
    /\ child.state \in {"exited", "killed"}
    /\ frame' = [frame EXCEPT !.pc = "parse", !.outs = child.out,
                              !.errs = child.err]
    /\ UNCHANGED <<main_vars, call, child>>

\* Mutation of ProbeOutcome: the exit status is not looked at
ProbeOutcome_StatusIgnored(outs, errs, returncode) ==
    IF outs = "invalid" THEN Raised("FFprobeJsonParseError")
    ELSE IF outs = "scalar" THEN Raised("FFprobeInvalidArgumentError")
    ELSE [kind |-> "FFprobe", exit_status |-> 0, stderr |-> ""]

\* json.loads, then the exit status, then the FFprobe constructor
ProbeOutcome(outs, errs, returncode) ==
    IF outs = "invalid" THEN Raised("FFprobeJsonParseError")
    ELSE IF returncode # 0
        THEN [kind |-> "FFprobeSubprocessError", exit_status |-> returncode,
              stderr |-> errs]
    ELSE IF outs = "scalar" THEN Raised("FFprobeInvalidArgumentError")
    ELSE [kind |-> "FFprobe", exit_status |-> 0, stderr |-> ""]

ProbeParse ==
    /\ frame.pc = "parse"
    /\ frame' = ProbeDone(ProbeOutcome(frame.outs, frame.errs, child.returncode))
    /\ UNCHANGED <<main_vars, call, child>>

ProbeNext ==
    \/ ProbeValidate
    \/ ProbePopen
    \/ ChildExit
    \/ ProbeCommunicate
    \/ ProbeKill
    \/ ProbeCollect
    \/ ProbeParse

ProbeSpec == ProbeInit /\ [][ProbeNext]_vars

\* ---------------------------------------------------------------------------
\* Claims on ffprobe3.probe
\* ---------------------------------------------------------------------------

ProbeReturned == frame.pc = "done"
ChildEnded == child.state \in {"exited", "killed"}
\* probe has taken the child's output
Collected == frame.outs \in OutKinds

\* C14: once the child's output is collected, a non-zero exit status makes
\* probe raise FFprobeSubprocessError with that status and the captured
\* stderr, whether or not stdout parsed as JSON.
C14_NonZeroExitIsSubprocessError ==
    (ProbeReturned /\ Collected /\ child.returncode # 0) =>
        /\ frame.result.kind = "FFprobeSubprocessError"
        /\ frame.result.exit_status = child.returncode
        /\ frame.result.stderr = child.err

\* a timeout that is a positive number
PositiveNumber(t) == (t.kind = "num" /\ t.v > 0) \/ t.kind = "inf"
NothingSpawned == frame.spawned = 0 /\ child.state = "none"

\* C15: with a usable override, a given timeout that is not a positive number
\* ends the call in FFprobeInvalidArgumentError; with verification on, a
\* target with no scheme prefix that is no file ends it in
\* FFprobeMediaFileError, and a target with a scheme prefix never does; no
\* child exists after either rejection.
C15_ValidationBeforeSpawn ==
    (ProbeReturned /\ frame.override # "nofile") =>
        /\ (frame.timeout.kind # "None" /\ ~PositiveNumber(frame.timeout))
              => (frame.result.kind = "FFprobeInvalidArgumentError"
                  /\ NothingSpawned)
        /\ (/\ frame.timeout.kind = "None" \/ PositiveNumber(frame.timeout)
            /\ frame.verify
            /\ ~URI_SCHEME_Matches(frame.media)
            /\ ~frame.isfile)
              => (frame.result.kind = "FFprobeMediaFileError" /\ NothingSpawned)
        /\ URI_SCHEME_Matches(frame.media)
              => frame.result.kind # "FFprobeMediaFileError"

\* C16: after an expired timeout the child is ended and probe holds the
\* output the child left; whenever probe has returned or raised after a
\* launch, the child has ended.
C16_ChildTerminatedOnExit ==
    /\ (frame.pc \in {"parse", "done"} /\ frame.timed_out)
          => (ChildEnded /\ frame.outs = child.out /\ frame.errs = child.err)
    /\ (ProbeReturned /\ frame.spawned > 0) => ChildEnded

\* C17 as stated: every finished call has launched exactly one child
C17_Original == ProbeReturned => frame.spawned = 1

RejectedBeforeLaunch ==
    frame.result.kind \in {"FFprobeOverrideFileError", "FFprobeMediaFileError",
                           "FFprobeExecutableError", "FFprobePopenError"}
EndedAfterLaunch ==
    frame.result.kind \in {"FFprobe", "FFprobeJsonParseError",
                           "FFprobeSubprocessError", "ValueError",
                           "OverflowError"}

\* C17: a call never launches a second child, not even after a timeout; a
\* call that ends in a result or in an error of the communication or parsing
\* has launched exactly one, and a call rejected before or at the launch none.
C17_AtMostOneChild ==
    /\ frame.spawned <= 1
    /\ frame.timed_out => frame.spawned = 1
    /\ ProbeReturned =>
          /\ RejectedBeforeLaunch => NothingSpawned
          /\ EndedAfterLaunch => frame.spawned = 1

C17_Witness ==
    /\ ProbeReturned
    /\ frame.timed_out
    /\ child.state = "killed"
    /\ frame.spawned = 1
    /\ frame.result.kind = "FFprobeJsonParseError"

\* ---------------------------------------------------------------------------
\* Values of the parsed JSON and the conversions the accessors apply to them
\* ---------------------------------------------------------------------------

\* Python values: None, int, an int too large for a float, float (a fraction
\* in lowest terms, nan, or an infinity), str as its characters, a str that
\* is no numeral taken whole, list, dict
PyInt(n) == [int |-> n]
BigInt == [bigint |-> TRUE]
PyNaN == [nan |-> TRUE]
PyInf(sign) == [inf |-> sign]
PyChars(s) == [str |-> s]
PyName(s) == [name |-> s]
PyList(s) == [list |-> s]
PyDict(d) == [dict |-> d]
PyTuple(a, b) == [tuple |-> <<a, b>>]

IsA(x, t) == t \in DOMAIN x

RECURSIVE GCD(_, _)
GCD(a, b) == IF b = 0 THEN a ELSE GCD(b, a % b)
Abs(n) == IF n < 0 THEN 0 - n ELSE n

\* the float n/d, d > 0
PyFloat(n, d) ==
    LET g == GCD(Abs(n), d)
    IN  [float |-> <<n \div g, d \div g>>]

\* a call's outcome: the exception it lets out, or the value it returns
Ok(v) == [exc |-> "", ret |-> v]
Err(e) == [exc |-> e, ret |-> None]

Digits == {"0", "1", "2", "3", "4", "5", "6", "7", "8", "9"}
DigitVal(c) ==
    CASE c = "0" -> 0 [] c = "1" -> 1 [] c = "2" -> 2 [] c = "3" -> 3
      [] c = "4" -> 4 [] c = "5" -> 5 [] c = "6" -> 6 [] c = "7" -> 7
      [] c = "8" -> 8 [] OTHER -> 9
Whitespace == {" ", "\n"}

IsDigits(s) == Len(s) > 0 /\ \A i \in 1..Len(s) : s[i] \in Digits

RECURSIVE DecValue(_)
DecValue(s) ==
    IF s = <<>> THEN 0
    ELSE DecValue(SubSeq(s, 1, Len(s) - 1)) * 10 + DigitVal(s[Len(s)])

RECURSIVE Pow10(_)
Pow10(k) == IF k = 0 THEN 1 ELSE 10 * Pow10(k - 1)

\* str.strip() as int() and float() apply it to their argument
RECURSIVE Strip(_)
Strip(s) ==
    IF s = <<>> THEN s
    ELSE IF s[1] \in Whitespace THEN Strip(Tail(s))
    ELSE IF s[Len(s)] \in Whitespace THEN Strip(SubSeq(s, 1, Len(s) - 1))
    ELSE s

HasSign(s) == s # <<>> /\ s[1] \in {"-", "+"}
Unsigned(s) == IF HasSign(s) THEN Tail(s) ELSE s
SignOf(s) == IF s # <<>> /\ s[1] = "-" THEN 0 - 1 ELSE 1

\* int(x)
py_int(x) ==
    IF IsA(x, "int") \/ IsA(x, "bigint") THEN Ok(x)
    ELSE IF IsA(x, "float")
        THEN Ok(PyInt((IF x.float[1] < 0 THEN 0 - 1 ELSE 1)
                      * (Abs(x.float[1]) \div x.float[2])))
    ELSE IF IsA(x, "nan") THEN Err("ValueError")
    ELSE IF IsA(x, "inf") THEN Err("OverflowError")
    ELSE IF IsA(x, "name") THEN Err("ValueError")
    ELSE IF IsA(x, "str")
        THEN LET t == Strip(x.str)
             IN  IF IsDigits(Unsigned(t))
                 THEN Ok(PyInt(SignOf(t) * DecValue(Unsigned(t))))
                 ELSE Err("ValueError")
    ELSE Err("TypeError")

\* the position of the point in a numeral, 0 if it has none
PointAt(s) ==
    IF \E i \in 1..Len(s) : s[i] = "."
    THEN CHOOSE i \in 1..Len(s) : s[i] = "." /\ \A j \in 1..(i - 1) : s[j] # "."
    ELSE 0

\* float(x)
py_float(x) ==
    IF IsA(x, "float") \/ IsA(x, "nan") \/ IsA(x, "inf") THEN Ok(x)
    ELSE IF IsA(x, "int") THEN Ok(PyFloat(x.int, 1))
    ELSE IF IsA(x, "bigint") THEN Err("OverflowError")
    ELSE IF IsA(x, "name") THEN Err("ValueError")
    ELSE IF IsA(x, "str")
        THEN LET t == Strip(x.str)
                 u == Unsigned(t)
                 p == PointAt(u)
                 whole == IF p = 0 THEN u ELSE SubSeq(u, 1, p - 1)
                 frac == IF p = 0 THEN <<>> ELSE SubSeq(u, p + 1, Len(u))
             IN  IF u = <<"n", "a", "n">> THEN Ok(PyNaN)
                 ELSE IF u = <<"i", "n", "f">> THEN Ok(PyInf(SignOf(t)))
                 ELSE IF /\ whole \o frac # <<>>
                         /\ \A i \in 1..Len(whole) : whole[i] \in Digits
                         /\ \A i \in 1..Len(frac) : frac[i] \in Digits
                     THEN Ok(PyFloat(SignOf(t) * DecValue(whole \o frac),
                                     Pow10(Len(frac))))
                 ELSE Err("ValueError")
    ELSE Err("TypeError")

\* d[key]
Subscript(d, key) ==
    IF key \in DOMAIN d THEN Ok(d[key]) ELSE Err("KeyError")

\* d.get(key, default)
DictGet(d, key, default) == IF key \in DOMAIN d THEN d[key] ELSE default

OrDefault_NoKeyError(r, default) ==
    IF r.exc \in {"", "KeyError"} THEN r ELSE [exc |-> "", ret |-> default]

\* what `except Exception: return default` turns an outcome into
OrDefault(r, default) == IF r.exc = "" THEN r ELSE Ok(default)

\* ParsedJson.get_as_float and ParsedJson.get_as_int
get_as_float(parsed_json, key, default) ==
    LET v == Subscript(parsed_json, key)
    IN  OrDefault(IF v.exc # "" THEN v ELSE py_float(v.ret), default)

get_as_int(parsed_json, key, default) ==
    LET v == Subscript(parsed_json, key)
    IN  OrDefault(IF v.exc # "" THEN v ELSE py_int(v.ret), default)

\* ---------------------------------------------------------------------------
\* The stream classes and the stream lists of FFprobe
\* ---------------------------------------------------------------------------

\* float(self.bit_rate_bps) / 1000.0 under `except (TypeError, ValueError)`
bit_rate_kbps(bit_rate_bps) ==
    LET f == py_float(bit_rate_bps)
    IN  IF f.exc \in {"TypeError", "ValueError"} THEN Ok(None)
        ELSE IF f.exc # "" THEN f
        ELSE IF IsA(f.ret, "float")
            THEN Ok(PyFloat(f.ret.float[1], f.ret.float[2] * 1000))
        ELSE f

\* FFstream.__init__: the attributes every stream object has
FFstream(parsed_json) ==
    Ok([cls |-> "FFstream",
        index |-> DictGet(parsed_json, "index", None),
        codec_type |-> DictGet(parsed_json, "codec_type", None),
        bit_rate_kbps |-> None,
        parsed_json |-> parsed_json])

\* the codec type a stream class requires
RequiredCodecType ==
    [FFattachmentStream |-> "attachment", FFaudioStream |-> "audio",
     FFsubtitleStream |-> "subtitle", FFvideoStream |-> "video"]

\* the __init__ of a class derived from FFstream
StreamSubclass(cls, parsed_json) ==
    LET self == FFstream(parsed_json).ret
        kbps == bit_rate_kbps(get_as_int(parsed_json, "bit_rate", None).ret)
    IN  IF self.codec_type # PyName(RequiredCodecType[cls])
        THEN Err("FFprobeStreamSubclassError")
        ELSE IF cls \in {"FFattachmentStream", "FFsubtitleStream"}
            THEN Ok([self EXCEPT !.cls = cls])
        ELSE IF kbps.exc # "" THEN kbps
        ELSE Ok([self EXCEPT !.cls = cls, !.bit_rate_kbps = kbps.ret])

FFattachmentStream(parsed_json) == StreamSubclass("FFattachmentStream", parsed_json)
FFaudioStream(parsed_json) == StreamSubclass("FFaudioStream", parsed_json)
FFsubtitleStream(parsed_json) == StreamSubclass("FFsubtitleStream", parsed_json)
FFvideoStream(parsed_json) == StreamSubclass("FFvideoStream", parsed_json)

\* codec type -> class
KNOWN_FFSTREAM_SUBCLASSES ==
    [attachment |-> "FFattachmentStream", audio |-> "FFaudioStream",
     subtitle |-> "FFsubtitleStream", video |-> "FFvideoStream"]

construct_ffstream_subclass_Generic(parsed_json) == FFstream(parsed_json)

construct_ffstream_subclass(parsed_json) ==
    LET codec_type == DictGet(parsed_json, "codec_type", None)
    IN  IF /\ ~IsNone(codec_type)
           /\ IsA(codec_type, "name")
           /\ codec_type.name \in DOMAIN KNOWN_FFSTREAM_SUBCLASSES
        THEN StreamSubclass(KNOWN_FFSTREAM_SUBCLASSES[codec_type.name], parsed_json)
        ELSE FFstream(parsed_json)

is_attachment(s) == s.codec_type = PyName("attachment")
is_audio(s) == s.codec_type = PyName("audio")
is_subtitle(s) == s.codec_type = PyName("subtitle")
is_video(s) == s.codec_type = PyName("video")

\* FFprobe.__init__: the stream objects in the order of the parsed JSON, and
\* the four lists picked from them; the first constructor that raises ends it
FFprobe(parsed_json) ==
    LET js == DictGet(parsed_json, "streams", <<>>)
        built == [i \in 1..Len(js) |-> construct_ffstream_subclass(js[i])]
        streams == [i \in 1..Len(js) |-> built[i].ret]
    IN  IF \E i \in 1..Len(js) : built[i].exc # ""
        THEN Err(built[CHOOSE i \in 1..Len(js) :
                          /\ built[i].exc # ""
                          /\ \A j \in 1..(i - 1) : built[j].exc = ""].exc)
        ELSE Ok([streams |-> streams,
                 attachment |-> SelectSeq(streams, is_attachment),
                 audio |-> SelectSeq(streams, is_audio),
                 subtitle |-> SelectSeq(streams, is_subtitle),
                 video |-> SelectSeq(streams, is_video)])

\* stream dictionaries of the parsed JSON: a codec_type that is one of the
\* four known, another string, a number, null or missing; an index; a
\* bit_rate that is missing, a number, or a number no float can hold
CodecTags ==
    {PyName(t) : t \in {"attachment", "audio", "subtitle", "video", "data"}}
        \cup {PyInt(7), None}
StreamDicts ==
    {[k \in K \cup {"index"} |->
         CASE k = "codec_type" -> c [] k = "bit_rate" -> b [] OTHER -> i] :
       K \in SUBSET {"codec_type", "bit_rate"}, c \in CodecTags,
       b \in {PyInt(128000), BigInt}, i \in {PyInt(0), PyInt(1)}}
EmptyDict == [k \in {} |-> None]
ParsedDocuments ==
    {EmptyDict} \cup {[streams |-> s] : s \in SeqsUpTo(StreamDicts, MaxStreams)}
StreamClasses ==
    {"FFstream", "FFattachmentStream", "FFaudioStream", "FFsubtitleStream",
     "FFvideoStream"}

\* FFprobe(parsed_json=...) or one of the stream classes is called
StreamInit ==
    /\ MainIdle
    /\ frame = NoFrame
    /\ child = NoChild
    /\ \/ \E doc \in ParsedDocuments :
             call = [fn |-> "FFprobe", phase |-> "called", parsed_json |-> doc,
                     out |-> Ok(None)]
       \/ \E cls \in StreamClasses, d \in StreamDicts :
             call = [fn |-> cls, phase |-> "called", parsed_json |-> d,
                     out |-> Ok(None)]

FFprobeReturn ==
    /\ call.fn = "FFprobe"
    /\ call.phase = "called"
    /\ call' = [call EXCEPT !.phase = "returned",
                            !.out = FFprobe(call.parsed_json)]
    /\ UNCHANGED <<main_vars, frame, child>>

StreamReturn ==
    /\ call.fn \in StreamClasses
    /\ call.phase = "called"
    /\ call' = [call EXCEPT !.phase = "returned",
                            !.out = IF call.fn = "FFstream"
                                    THEN FFstream(call.parsed_json)
                                    ELSE StreamSubclass(call.fn, call.parsed_json)]
    /\ UNCHANGED <<main_vars, frame, child>>

StreamNext == FFprobeReturn \/ StreamReturn

StreamSpec == StreamInit /\ [][StreamNext]_vars

\* ---------------------------------------------------------------------------
\* Claims on the stream lists and the stream classes
\* ---------------------------------------------------------------------------

FFprobeBuilt ==
    call.fn = "FFprobe" /\ call.phase = "returned" /\ call.out.exc = ""
GivenStreams == DictGet(call.parsed_json, "streams", <<>>)
\* the type tag of a stream dictionary, "" if it has none of the four
KnownTags == {"attachment", "audio", "subtitle", "video"}
TagOf(d) ==
    IF "codec_type" \in DOMAIN d /\ d["codec_type"] \in {PyName(t) : t \in KnownTags}
    THEN d["codec_type"].name ELSE ""
VariantOf(t) ==
    CASE t = "attachment" -> "FFattachmentStream"
      [] t = "audio" -> "FFaudioStream"
      [] t = "subtitle" -> "FFsubtitleStream"
      [] t = "video" -> "FFvideoStream"
      [] OTHER -> "FFstream"
ListOf(t) ==
    CASE t = "attachment" -> call.out.ret.attachment
      [] t = "audio" -> call.out.ret.audio
      [] t = "subtitle" -> call.out.ret.subtitle
      [] OTHER -> call.out.ret.video
Elements(s) == {s[i] : i \in 1..Len(s)}

\* C18: in a constructed FFprobe, streams has one object per given stream, in
\* the given order; each of the four lists is streams restricted to the
\* objects with that type tag, all of the matching class; the lists share no
\* element; a stream with another tag or none is an FFstream in none of them.
C18_StreamListsPartition ==
    FFprobeBuilt =>
        LET o == call.out.ret
        IN  /\ Len(o.streams) = Len(GivenStreams)
            /\ \A i \in 1..Len(GivenStreams) :
                  /\ o.streams[i].parsed_json = GivenStreams[i]
                  /\ o.streams[i].cls = VariantOf(TagOf(GivenStreams[i]))
            /\ \A t \in KnownTags :
                  /\ ListOf(t) = SelectSeq(o.streams,
                                     LAMBDA s : TagOf(s.parsed_json) = t)
                  /\ \A s \in Elements(ListOf(t)) : s.cls = VariantOf(t)
            /\ \A t, u \in KnownTags :
                  t # u => Elements(ListOf(t)) \cap Elements(ListOf(u)) = {}
            /\ \A i \in 1..Len(GivenStreams) :
                  TagOf(GivenStreams[i]) = "" =>
                      \A t \in KnownTags : o.streams[i] \notin Elements(ListOf(t))

C18_Witness ==
    /\ FFprobeBuilt
    /\ Len(GivenStreams) = 2
    /\ TagOf(GivenStreams[1]) = "video" /\ GivenStreams[1]["index"] = PyInt(1)
    /\ "codec_type" \notin DOMAIN GivenStreams[2]
    /\ call.out.ret.video = <<call.out.ret.streams[1]>>
    /\ call.out.ret.streams[2].cls = "FFstream"
    /\ call.out.ret.audio = <<>>

TypedCall ==
    call.fn \in StreamClasses \ {"FFstream"} /\ call.phase = "returned"

\* C19: a typed stream class given a stream whose codec_type is not its own,
\* or is absent, raises FFprobeStreamSubclassError and yields no object;
\* given its own codec_type it yields an object of the class.
C19_TypedConstructorChecksTag ==
    TypedCall =>
        IF TagOf(call.parsed_json) # "" /\ VariantOf(TagOf(call.parsed_json)) = call.fn
        THEN call.out.exc = "" /\ call.out.ret.cls = call.fn
        ELSE call.out.exc = "FFprobeStreamSubclassError" /\ IsNone(call.out.ret)

\* ---------------------------------------------------------------------------
\* The accessors of ParsedJson and FFvideoStream
\* ---------------------------------------------------------------------------

\* a string built by the % operator: the format and its arguments
PyFormat(fmt, args) == [fmt |-> fmt, args |-> args]

\* abs(num) < divisor and num / divisor on floats
FloatAbsLess(x, k) == IsA(x, "float") /\ Abs(x.float[1]) < k * x.float[2]
FloatDiv(x, k) ==
    IF IsA(x, "float") THEN PyFloat(x.float[1], x.float[2] * k) ELSE x

Units == <<"", "k", "M", "G", "T", "P", "E", "Z">>

\* a float as "%.1f" prints it: the number of tenths nearest to it (an exact
\* half goes to the even neighbour); nan and the infinities print as they are
Fixed1(x) ==
    IF ~IsA(x, "float") THEN x
    ELSE LET q == (Abs(x.float[1]) * 10) \div x.float[2]
             r == (Abs(x.float[1]) * 10) % x.float[2]
             up == 2 * r > x.float[2] \/ (2 * r = x.float[2] /\ q % 2 = 1)
         IN  [tenths |-> (IF x.float[1] < 0 THEN 0 - 1 ELSE 1)
                          * (IF up THEN q + 1 ELSE q)]

\* the loop over the units and the two returns after it
RECURSIVE ScaleToUnit(_, _, _, _, _)
ScaleToUnit(num, divisor, use_base_10, suffix, i) ==
    IF i > Len(Units)
    THEN PyFormat("%.1f %s%s",
                  <<Fixed1(num), IF use_base_10 THEN "Y" ELSE "Yi", suffix>>)
    ELSE IF FloatAbsLess(num, divisor)
        THEN IF Units[i] # "" /\ ~use_base_10
             THEN PyFormat("%3.1f %si%s", <<Fixed1(num), Units[i], suffix>>)
             ELSE PyFormat("%3.1f %s%s", <<Fixed1(num), Units[i], suffix>>)
    ELSE ScaleToUnit(FloatDiv(num, divisor), divisor, use_base_10, suffix, i + 1)

Base10Divisor == 1000
Base2Divisor == 1024

get_datasize_as_human(parsed_json, key, default, suffix, use_base_10) ==
    LET divisor == IF use_base_10 THEN Base10Divisor ELSE Base2Divisor
        v == Subscript(parsed_json, key)
        num == IF v.exc # "" THEN v ELSE py_float(v.ret)
    IN  OrDefault(IF num.exc # "" THEN num
                  ELSE Ok(ScaleToUnit(num.ret, divisor, use_base_10, suffix, 1)),
                  default)

SecsPerMin == 60
MinsPerHour == 60

\* hours, minutes and seconds of a duration; int() of the nan that // gives
\* for a nan or an infinity raises ValueError
get_duration_as_human(parsed_json, default) ==
    LET v == Subscript(parsed_json, "duration")
        f == IF v.exc # "" THEN v ELSE py_float(v.ret)
    IN  OrDefault(
            IF f.exc # "" THEN f
            ELSE IF ~IsA(f.ret, "float") THEN Err("ValueError")
            ELSE LET n == f.ret.float[1]
                     d == f.ret.float[2]
                     mins == n \div (d * SecsPerMin)
                     secs == PyFloat(n - mins * SecsPerMin * d, d)
                     hours == mins \div MinsPerHour
                 IN  Ok(PyFormat("%02d:%02d:%05.2f",
                                 <<PyInt(hours), PyInt(mins - hours * MinsPerHour),
                                   secs>>)),
            default)

\* -?[0-9]+
IsNumeral(t) == IsDigits(IF t # <<>> /\ t[1] = "-" THEN Tail(t) ELSE t)

\* the text "^(-?[0-9]+)/(-?[0-9]+)$" is matched against: $ also matches
\* before a newline that ends the string
BeforeFinalNewline(s) ==
    IF s # <<>> /\ s[Len(s)] = "\n" THEN SubSeq(s, 1, Len(s) - 1) ELSE s

\* the positions of a "/" with a numeral on either side (at most one)
RatioSplits(s) ==
    {p \in 1..Len(s) :
        /\ s[p] = "/"
        /\ IsNumeral(SubSeq(s, 1, p - 1))
        /\ IsNumeral(SubSeq(s, p + 1, Len(s)))}

get_frame_rate_as_ratio(parsed_json, key, default) ==
    LET v == Subscript(parsed_json, key)
    IN  OrDefault(
            IF v.exc # "" THEN v
            ELSE IF ~(IsA(v.ret, "str") \/ IsA(v.ret, "name")) THEN Err("TypeError")
            ELSE IF IsA(v.ret, "name") THEN Err("AttributeError")
            ELSE LET s == BeforeFinalNewline(v.ret.str)
                 IN  IF RatioSplits(s) = {} THEN Err("AttributeError")
                     ELSE LET p == CHOOSE q \in RatioSplits(s) : TRUE
                          IN  Ok(PyTuple(py_int(PyChars(SubSeq(s, 1, p - 1))).ret,
                                         py_int(PyChars(SubSeq(s, p + 1, Len(s)))).ret)),
            default)

get_frame_rate_as_float(parsed_json, key, default) ==
    LET r == get_frame_rate_as_ratio(parsed_json, key, None).ret
    IN  OrDefault(
            IF ~IsA(r, "tuple") THEN Err("TypeError")
            ELSE IF r.tuple[1].int <= 0 \/ r.tuple[2].int <= 0 THEN Ok(default)
            ELSE Ok(PyFloat(r.tuple[1].int, r.tuple[2].int)),
            default)

\* what d["rotation"] raises for an element d of side_data_list, "" if nothing
RotationFault(d) ==
    IF ~IsA(d, "dict") THEN "TypeError"
    ELSE IF "rotation" \notin DOMAIN d.dict THEN "KeyError"
    ELSE ""

get_frame_rotation(parsed_json, default) ==
    LET side_data_list == DictGet(parsed_json, "side_data_list", None)
    IN  OrDefault(
            IF ~IsA(side_data_list, "list") THEN Err("TypeError")
            ELSE LET l == side_data_list.list
                 IN  IF \E i \in 1..Len(l) : RotationFault(l[i]) # ""
                     THEN Err(RotationFault(l[CHOOSE i \in 1..Len(l) :
                                 /\ RotationFault(l[i]) # ""
                                 /\ \A j \in 1..(i - 1) : RotationFault(l[j]) = ""]))
                     ELSE IF l = <<>> THEN Err("IndexError")
                     ELSE Ok(l[1].dict["rotation"]),
            default)

HalfTurns == {90, 270}
FullTurn == 360

\* x % 360 in (90, 270); the % of a str is formatting and raises TypeError;
\* BigInt stands for 10**400, whose remainder is 280
Rotated(x) ==
    IF IsA(x, "int") THEN Ok(x.int % FullTurn \in HalfTurns)
    ELSE IF IsA(x, "float")
        THEN Ok(x.float[2] = 1 /\ x.float[1] % FullTurn \in HalfTurns)
    ELSE IF IsA(x, "nan") \/ IsA(x, "inf") \/ IsA(x, "bigint") THEN Ok(FALSE)
    ELSE Err("TypeError")

get_frame_shape(parsed_json, default) ==
    LET height == py_int(get_as_int(parsed_json, "height", None).ret)
        width == py_int(get_as_int(parsed_json, "width", None).ret)
        turned == Rotated(get_frame_rotation(parsed_json, PyInt(0)).ret)
    IN  OrDefault(
            IF height.exc # "" THEN height
            ELSE IF width.exc # "" THEN width
            ELSE IF turned.exc # "" THEN turned
            ELSE IF turned.ret THEN Ok(PyTuple(height.ret, width.ret))
            ELSE Ok(PyTuple(width.ret, height.ret)),
            default)

\* values a key of the parsed JSON may hold
NumberTexts ==
    { <<"3", "0">>, <<"-", "5">>, <<" ", "7">>, <<"1", ".", "5">>,
      <<"n", "a", "n">>, <<>> }
RatioTexts ==
    { <<"3", "0", "/", "1">>, <<"3", "0", "/", "0">>, <<"0", "/", "1">>,
      <<"-", "3", "0", "/", "1">>, <<"3", "0", "/", "1", "\n">>,
      <<"3", "0", "/">>, <<"6", "/", "4">> }
JsonValues ==
    {None, PyInt(0), PyInt(1500), PyInt(0 - 90), BigInt, PyFloat(3, 2), PyNaN,
     PyInf(1), PyName("N/A"), PyList(<<>>), PyDict(EmptyDict)}
        \cup {PyChars(s) : s \in NumberTexts \cup RatioTexts}

\* data sizes around the steps between the units
SizeValues ==
    {PyInt(n) : n \in {1, 999, 1000, 1023, 1024, 999999, 1048575, 1500000}}

Rotation(v) == PyDict([rotation |-> v])
SideDataLists ==
    {None, PyInt(90), Rotation(PyInt(90)), PyList(<<>>),
     PyList(<<Rotation(PyInt(90))>>), PyList(<<Rotation(PyInt(0 - 90))>>),
     PyList(<<Rotation(PyChars(<<"9", "0">>))>>), PyList(<<Rotation(None)>>),
     PyList(<<Rotation(PyInt(90)), PyDict(EmptyDict)>>),
     PyList(<<PyInt(5)>>)}

\* a dictionary holding the given keys only
KeyedDicts(key, values) == {EmptyDict} \cup {[k \in {key} |-> v] : v \in values}
VideoDicts ==
    {[k \in K |-> CASE k = "width" -> w [] k = "height" -> h [] OTHER -> l] :
       K \in SUBSET {"width", "height", "side_data_list"},
       w \in {PyInt(640), PyChars(<<"3", "0">>), PyName("N/A")},
       h \in {PyInt(480), None}, l \in SideDataLists}

KeyAccessors ==
    {"get_as_float", "get_as_int", "get_frame_rate_as_ratio",
     "get_frame_rate_as_float"}
VideoAccessors == {"get_frame_shape", "get_frame_rotation"}

AccessorCall(fn, parsed_json, key, default, suffix, use_base_10) ==
    [fn |-> fn, phase |-> "called", parsed_json |-> parsed_json, key |-> key,
     default |-> default, suffix |-> suffix, use_base_10 |-> use_base_10,
     out |-> Ok(None)]

\* one accessor is called on one object
AccessorInit ==
    /\ MainIdle
    /\ frame = NoFrame
    /\ child = NoChild
    /\ \E dflt \in {None, PyName("fallback")} :
          \/ \E fn \in KeyAccessors, d \in KeyedDicts("k", JsonValues) :
                call = AccessorCall(fn, d, "k", dflt, "", TRUE)
          \/ \E d \in KeyedDicts("k", JsonValues \cup SizeValues),
                sfx \in {"", "B"}, b \in BOOLEAN :
                call = AccessorCall("get_datasize_as_human", d, "k", dflt, sfx, b)
          \/ \E d \in KeyedDicts("duration", JsonValues) :
                call = AccessorCall("get_duration_as_human", d, "duration",
                                    dflt, "", TRUE)
          \/ \E fn \in VideoAccessors, d \in VideoDicts :
                call = AccessorCall(fn, d, "side_data_list", dflt, "", TRUE)

Accessor(c) ==
    CASE c.fn = "get_as_float" -> get_as_float(c.parsed_json, c.key, c.default)
      [] c.fn = "get_as_int" -> get_as_int(c.parsed_json, c.key, c.default)
      [] c.fn = "get_datasize_as_human" ->
            get_datasize_as_human(c.parsed_json, c.key, c.default, c.suffix,
                                  c.use_base_10)
      [] c.fn = "get_duration_as_human" ->
            get_duration_as_human(c.parsed_json, c.default)
      [] c.fn = "get_frame_rate_as_ratio" ->
            get_frame_rate_as_ratio(c.parsed_json, c.key, c.default)
      [] c.fn = "get_frame_rate_as_float" ->
            get_frame_rate_as_float(c.parsed_json, c.key, c.default)
      [] c.fn = "get_frame_shape" -> get_frame_shape(c.parsed_json, c.default)
      [] OTHER -> get_frame_rotation(c.parsed_json, c.default)

AccessorReturn ==
    /\ call.fn \in KeyAccessors \cup VideoAccessors
                   \cup {"get_datasize_as_human", "get_duration_as_human"}
    /\ call.phase = "called"
    /\ call' = [call EXCEPT !.phase = "returned", !.out = Accessor(call)]
    /\ UNCHANGED <<main_vars, frame, child>>

AccessorSpec == AccessorInit /\ [][AccessorReturn]_vars

\* ---------------------------------------------------------------------------
\* Claims on the accessors
\* ---------------------------------------------------------------------------

AccessorReturned ==
    /\ call.fn \in KeyAccessors \cup VideoAccessors
                   \cup {"get_datasize_as_human", "get_duration_as_human"}
    /\ call.phase = "returned"

\* the values, among JsonValues, that Python converts to a float, to an int,
\* that are a finite duration, a ratio, a ratio of two positive numbers
ConvertsToFloat ==
    {PyInt(0), PyInt(1500), PyInt(0 - 90), PyFloat(3, 2), PyNaN, PyInf(1)}
        \cup {PyChars(s) : s \in {<<"3", "0">>, <<"-", "5">>, <<" ", "7">>,
                                  <<"1", ".", "5">>, <<"n", "a", "n">>}}
ConvertsToInt ==
    {PyInt(0), PyInt(1500), PyInt(0 - 90), BigInt, PyFloat(3, 2)}
        \cup {PyChars(s) : s \in {<<"3", "0">>, <<"-", "5">>, <<" ", "7">>}}
FiniteDurations ==
    ConvertsToFloat \ {PyNaN, PyInf(1), PyChars(<<"n", "a", "n">>)}
Ratios == {PyChars(s) : s \in RatioTexts \ {<<"3", "0", "/">>}}
PositiveRatios ==
    {PyChars(<<"3", "0", "/", "1">>), PyChars(<<"3", "0", "/", "1", "\n">>),
     PyChars(<<"6", "/", "4">>)}
\* side data lists in which every entry has a rotation, and those among
\* them whose first rotation is a number
RotationLists ==
    {PyList(<<Rotation(v)>>) :
       v \in {PyInt(90), PyInt(0 - 90), PyChars(<<"9", "0">>), None}}
NumericRotationLists ==
    {PyList(<<Rotation(v)>>) : v \in {PyInt(90), PyInt(0 - 90)}}

Holds(c, key, values) ==
    key \in DOMAIN c.parsed_json /\ c.parsed_json[key] \in values

\* the inputs for which the accessor has a value to give
Succeeds(c) ==
    CASE c.fn \in {"get_as_float", "get_datasize_as_human"} ->
            Holds(c, c.key, ConvertsToFloat \cup SizeValues)
      [] c.fn = "get_as_int" -> Holds(c, c.key, ConvertsToInt)
      [] c.fn = "get_duration_as_human" -> Holds(c, "duration", FiniteDurations)
      [] c.fn = "get_frame_rate_as_ratio" -> Holds(c, c.key, Ratios)
      [] c.fn = "get_frame_rate_as_float" -> Holds(c, c.key, PositiveRatios)
      [] c.fn = "get_frame_rotation" -> Holds(c, "side_data_list", RotationLists)
      [] OTHER ->
            /\ Holds(c, "width", {PyInt(640), PyChars(<<"3", "0">>)})
            /\ Holds(c, "height", {PyInt(480)})
            /\ ~Holds(c, "side_data_list", RotationLists \ NumericRotationLists)

\* C20: none of the eight accessors lets an exception out, and on every input
\* for which it has no value to give it returns the default it was called with
\* (None when the caller left it out).
C20_AccessorsNeverRaise ==
    AccessorReturned =>
        /\ call.out.exc = ""
        /\ ~Succeeds(call) => call.out.ret = call.default

C20_Witness ==
    /\ AccessorReturned
    /\ call.fn = "get_frame_rotation"
    /\ Holds(call, "side_data_list",
             {PyList(<<Rotation(PyInt(90)), PyDict(EmptyDict)>>)})
    /\ call.default = PyName("fallback")
    /\ call.out = Ok(PyName("fallback"))

\* ---------------------------------------------------------------------------
\* Claims on the frame shape, the frame rate and the data size
\* ---------------------------------------------------------------------------

ShapeReturned == AccessorReturned /\ call.fn = "get_frame_shape"

\* the entries of the side data list that carry a numeric rotation
NumericRotations(c) ==
    IF "side_data_list" \in DOMAIN c.parsed_json
       /\ IsA(c.parsed_json["side_data_list"], "list")
    THEN SelectSeq(c.parsed_json["side_data_list"].list,
                   LAMBDA d : IsA(d, "dict") /\ "rotation" \in DOMAIN d.dict
                              /\ IsA(d.dict["rotation"], "int"))
    ELSE <<>>
\* a side data list with a rotation that is no number
HasOtherRotation(c) ==
    Holds(c, "side_data_list", RotationLists \ NumericRotationLists)
QuarterTurned(c) ==
    /\ NumericRotations(c) # <<>>
    /\ NumericRotations(c)[1].dict["rotation"].int % 360 \in {90, 270}

\* C21: with an integer width and height, get_frame_shape gives (height,
\* width) when the rotation in the side data is 90 or 270 modulo 360, also
\* for a negative rotation, and (width, height) otherwise, also without
\* rotation data.
C21_FrameShapeFollowsRotation ==
    (/\ ShapeReturned
     /\ Holds(call, "width", {PyInt(640)})
     /\ Holds(call, "height", {PyInt(480)})
     /\ ~HasOtherRotation(call)) =>
        call.out =
            Ok(IF QuarterTurned(call) THEN PyTuple(PyInt(480), PyInt(640))
               ELSE PyTuple(PyInt(640), PyInt(480)))

\* the texts of the form integer/integer among RatioTexts, with their sides
ExactRatios ==
    {[text |-> <<"3", "0", "/", "1">>, n |-> 30, d |-> 1],
     [text |-> <<"3", "0", "/", "0">>, n |-> 30, d |-> 0],
     [text |-> <<"0", "/", "1">>, n |-> 0, d |-> 1],
     [text |-> <<"-", "3", "0", "/", "1">>, n |-> 0 - 30, d |-> 1],
     [text |-> <<"6", "/", "4">>, n |-> 6, d |-> 4]}
ExactRatioOf(v) == {r \in ExactRatios : v = PyChars(r.text)}

\* C22: a field of the form integer/integer gives the pair of its two
\* integers, not reduced; the float form gives n/d when both are above zero
\* and the default when one is zero or negative; for a field not of that form
\* the float form gives the default.
C22_FrameRateParse ==
    (/\ AccessorReturned
     /\ call.fn \in {"get_frame_rate_as_ratio", "get_frame_rate_as_float"}
     /\ call.key \in DOMAIN call.parsed_json) =>
        LET v == call.parsed_json[call.key]
        IN  /\ \A r \in ExactRatioOf(v) :
                  IF call.fn = "get_frame_rate_as_ratio"
                  THEN call.out = Ok(PyTuple(PyInt(r.n), PyInt(r.d)))
                  ELSE IF r.n > 0 /\ r.d > 0
                      THEN call.out = Ok(PyFloat(r.n, r.d))
                  ELSE call.out = Ok(call.default)
            /\ (ExactRatioOf(v) = {} /\ call.fn = "get_frame_rate_as_float")
                  => call.out = Ok(call.default)

\* byte sizes of one byte and more among the inputs, with their number
WellFormedSizes ==
    {[v |-> PyInt(n), n |-> n] :
        n \in {1, 999, 1000, 1023, 1024, 1500, 999999, 1048575, 1500000}}
        \cup {[v |-> PyChars(<<"3", "0">>), n |-> 30]}
\* how many times the divisor goes into a size below its cube
Divisions(n, divisor) ==
    IF n < divisor THEN 0 ELSE IF n < divisor * divisor THEN 1 ELSE 2

\* C23: for a byte size of one byte and more, get_datasize_as_human gives a
\* number from 1 up to, not including, 1000 (1024 in base 2) and the prefix
\* of the number of divisions made, with an i after a prefix in base 2.
C23_DatasizeScaled ==
    (/\ AccessorReturned
     /\ call.fn = "get_datasize_as_human"
     /\ call.key \in DOMAIN call.parsed_json) =>
        \A s \in {w \in WellFormedSizes : w.v = call.parsed_json[call.key]} :
            LET divisor == IF call.use_base_10 THEN 1000 ELSE 1024
                k == Divisions(s.n, divisor)
                text == call.out.ret
            IN  /\ call.out.exc = ""
                /\ "fmt" \in DOMAIN text
                /\ text.args[1].tenths >= 10
                /\ text.args[1].tenths < divisor * 10
                /\ text.args[2] = <<"", "k", "M">>[k + 1]
                /\ text.fmt = IF k > 0 /\ ~call.use_base_10
                              THEN "%3.1f %si%s" ELSE "%3.1f %s%s"
                /\ text.args[3] = call.suffix

\* ---------------------------------------------------------------------------
\* Further claims on the __main__ block
\* ---------------------------------------------------------------------------

\* the loop has left file f behind
LeftBehind(f) == song > f \/ (song = f /\ pc \in CleanupPcs \cup {"for"})

\* C24: a file skipped for a probe failure, for having no audio stream, for a
\* first audio stream without tag dictionary, for a catalog response that is
\* not JSON or for an empty match list has a log record when the loop moves on.
C24_SkipsAreLogged ==
    \A f \in Files :
        (PerFileFailure(f) /\ LeftBehind(f)) => Has("logger.error", f)

\* C25: a catalog response that parses, whose match list is not empty and
\* whose first item lacks one of the ten fields, is no per-file failure: the
\* file gets no row, the handler of the try runs, and the loop handles no
\* later file.
C25_MissingFieldAborts ==
    \A f \in Files : HasKind("isrc_response", f, {"malformed"}) =>
        /\ RowsOf(f) = {}
        /\ ~Has("resolve", f) /\ ~Has("insert", f)
        /\ song = f
        /\ pc \in {"except"} \cup CleanupPcs
        /\ pc # "except" => Has("except", f)
        /\ \A k \in Idx : trace[k].file <= f

C25_Witness ==
    /\ pc = "done"
    /\ HasKind("isrc_response", 1, {"malformed"})
    /\ Has("except", 1)
    /\ RowsOf(1) = {}
    /\ \A k \in Idx : trace[k].file = 1


----------------------------------------------------------------------------
(* DoesExplicitVersionExist taken alone, called any number of times *)

\* the records DoesExplicitVersionExist is called with
SearchRecords ==
    {[Recording("False") EXCEPT !.recordingArtistName = a,
                                !.recordingTitle = t,
                                !.recordingYear = y] :
        a \in {"A", "B"}, t \in {"T", "U"}, y \in {"2020", "2021"}}

\* DoesExplicitVersionExist(s) is called with the catalog about to answer resp
SearchCalled(s, resp) ==
    [fn |-> "DoesExplicitVersionExist", phase |-> "called",
     song |-> s, resp |-> resp,
     before |-> InitialSearchPayload, sent |-> InitialSearchPayload,
     out |-> [exc |-> FALSE, ret |-> FALSE, logs |-> <<>>]]

\* the first call of the process: the template is as the module defines it
SearchInit ==
    /\ MainIdle
    /\ frame = NoFrame
    /\ child = NoChild
    /\ \E s \in SearchRecords, resp \in CatalogResponses :
          call = SearchCalled(s, resp)

\* the call fills the template, sends json.dumps of it, and runs to its
\* return or to the exception it lets out
SearchReturn ==
    /\ call.fn = "DoesExplicitVersionExist"
    /\ call.phase = "called"
    /\ search_payload' = FillSearchPayload(search_payload, call.song)
    /\ call' = [call EXCEPT !.phase = "returned",
                            !.before = search_payload,
                            !.sent = search_payload',
                            !.out = DoesExplicitVersionExist(call.song, call.resp)]
    /\ UNCHANGED <<pc, song, metadata, data, isrcMetadata, doesExplicitExist,
                   music, committed, trace, table_exists, sleep_ms,
                   frame, child>>

\* a later call in the same process: the template is what the calls before
\* it left
SearchAgain ==
    /\ call.fn = "DoesExplicitVersionExist"
    /\ call.phase = "returned"
    /\ \E s \in SearchRecords, resp \in CatalogResponses :
          call' = SearchCalled(s, resp)
    /\ UNCHANGED <<main_vars, frame, child>>

SearchNext == SearchReturn \/ SearchAgain

SearchSpec == SearchInit /\ [][SearchNext]_vars

----------------------------------------------------------------------------
(* Claims on the fuzzy search *)

SearchReturned == call.fn = "DoesExplicitVersionExist" /\ call.phase = "returned"

\* the request was answered with JSON that has a "recordings" list
MatchesReturned ==
    SearchReturned /\ ~call.resp.raised /\ call.resp.json_ok
                   /\ call.resp.has_recordings

Matches == {call.resp.recordings[k] : k \in 1..Len(call.resp.recordings)}

SomeMatchExplicit ==
    \E x \in Matches : "isExplicit" \in DOMAIN x /\ x.isExplicit = "True"

ReturnsFalse == ~call.out.exc /\ call.out.ret = FALSE
ReturnsTrue == ~call.out.exc /\ call.out.ret = TRUE

\* response not JSON: false, no exception; empty match list: false
FailsClosed ==
    /\ (SearchReturned /\ ~call.resp.raised /\ ~call.resp.json_ok) => ReturnsFalse
    /\ (MatchesReturned /\ Matches = {}) => ReturnsFalse

\* C26 as stated: with matches returned the call returns true if and only if
\* at least one match has the explicit flag "True"; it returns false without
\* raising on a response that is not JSON, and false on an empty match list.
C26_Original ==
    /\ MatchesReturned => (ReturnsTrue <=> SomeMatchExplicit)
    /\ FailsClosed

\* C26: when every match carries an explicit flag the call returns, and
\* returns true if and only if at least one match has the flag "True"; a
\* match without the flag makes the call raise whatever the other matches
\* are; a response that is not JSON gives false without raising, an empty
\* match list gives false.
C26_ExplicitScan ==
    /\ MatchesReturned =>
          IF \A x \in Matches : "isExplicit" \in DOMAIN x
          THEN /\ ~call.out.exc
               /\ call.out.ret <=> SomeMatchExplicit
          ELSE call.out.exc
    /\ FailsClosed

C26_Witness ==
    /\ MatchesReturned
    /\ call.resp.recordings = <<Recording("False"), Recording("True")>>
    /\ ReturnsTrue


\* the template fields DoesExplicitVersionExist never assigns
FixedTemplateFields ==
    {"releaseName", "releaseYear", "recordingVersion", "recordingType",
     "start", "number", "showReleases"}

\* C28: after any sequence of DoesExplicitVersionExist calls the payload a
\* call sends has the artist name, title and recording year of that call's
\* record, whatever the calls before it left in the template, and every other
\* field of the sent payload and of the template has its initial value.
C28_TemplateCarriesNoState ==
    /\ DOMAIN search_payload = DOMAIN InitialSearchPayload
    /\ \A f \in FixedTemplateFields : search_payload[f] = InitialSearchPayload[f]
    /\ SearchReturned =>
          /\ call.sent.recordingArtistName = call.song.recordingArtistName
          /\ call.sent.recordingTitle = call.song.recordingTitle
          /\ call.sent.recordingYear = call.song.recordingYear
          /\ \A f \in FixedTemplateFields : call.sent[f] = InitialSearchPayload[f]

\* a call that found the template filled by a call for another record
C28_Witness ==
    /\ SearchReturned
    /\ call.before.recordingArtistName = "A" /\ call.song.recordingArtistName = "B"
    /\ call.before.recordingTitle = "T" /\ call.song.recordingTitle = "U"
    /\ call.before.recordingYear = "2020" /\ call.song.recordingYear = "2021"
    /\ call.sent.recordingYear = "2021"


----------------------------------------------------------------------------
(* Further claims on ffprobe3.probe *)

TimedOut == ProbeReturned /\ frame.timed_out
KillErrors == {"FFprobeJsonParseError", "FFprobeSubprocessError"}

\* C27 as stated: a call whose communicate timeout expired never returns a
\* result object; it ends in a JSON-parse error or a subprocess-failure
\* error, however the child's own exit falls between the expiry and the kill.
C27_Original == TimedOut => frame.result.kind \in KillErrors

\* C27: a call whose communicate timeout expired and whose child was still
\* running at the kill never returns a result object, it ends in a JSON-parse
\* error or a subprocess-failure error; a result object after an expired
\* timeout comes only from a child that ended by itself with status 0 and
\* JSON-object output between the expiry and the kill.
C27_TimedOutKilledNeverReturns ==
    TimedOut =>
        /\ child.state \in {"exited", "killed"}
        /\ child.state = "killed" => frame.result.kind \in KillErrors
        /\ frame.result.kind \notin KillErrors =>
              /\ child.state = "exited"
              /\ child.returncode = 0
              /\ child.out # "invalid"
        /\ frame.result.kind = "FFprobe" => child.out = "object"

C27_Witness ==
    /\ TimedOut
    /\ child.state = "killed"
    /\ child.out = "object"
    /\ frame.result.kind = "FFprobeSubprocessError"
    /\ frame.result.exit_status = KilledStatus


----------------------------------------------------------------------------
(* Claims on the commit and on files without an ISRC tag *)

CommitAt == {k \in Idx : trace[k].op = "commit"}
\* rows of this run that are committed
CommittedOfRun == {r \in 1..Len(committed) : committed[r].FilePath \in Files}
\* before trace[k] the loop was over: aborted, or every file was taken up
LoopOverBefore(k) ==
    \/ \E j \in 1..(k - 1) : trace[j].op = "except"
    \/ \A f \in Files : \E j \in 1..(k - 1) : trace[j].op = "probe" /\ trace[j].file = f

\* C29: no commit is issued while the loop runs, so no row of the run is
\* committed before the cleanup; the cleanup's commit is the only one, it
\* comes after the last file was handled or the loop was aborted, it commits
\* every row inserted during the run, and only the close follows it.
C29_SingleCommitAfterLoop ==
    /\ Cardinality(CommitAt) <= 1
    /\ CommitAt = {} => (CommittedOfRun = {} /\ pc \notin {"close", "done"})
    /\ pc \notin CleanupPcs => CommitAt = {}
    /\ \A k \in CommitAt :
          /\ pc \in {"close", "done"}
          /\ committed = music
          /\ LoopOverBefore(k)
          /\ \A j \in (k + 1)..Len(trace) : trace[j].op = "connection.close"

C29_Witness ==
    /\ pc = "done"
    /\ Cardinality(CommitAt) = 1
    /\ RowsOf(1) # {} /\ RowsOf(2) # {}
    /\ Cardinality(CommittedOfRun) = 2

\* the first audio stream of f has tags, and no ISRC among them
NoIsrcTag(f) == HasKind("probe", f, {"tags without ISRC"})
\* the loop is at f and past the given places, or past f
PastIn(f, pcs) == song > f \/ (song = f /\ pc \notin pcs)

\* C30: a file whose first audio stream has tags without an ISRC tag is not
\* given up: its dedup check, its ISRC lookup and its row all use the key
\* "error"; when the store holds a row keyed "error" at its dedup check the
\* file is skipped, and otherwise the lookup is made.
C30_MissingIsrcUsesSentinel ==
    \A f \in Files : NoIsrcTag(f) =>
        /\ PastIn(f, {"probe", "normalize", "select"}) => Has("select", f)
        /\ \A k \in Idx :
              (trace[k].file = f /\ trace[k].op \in {"select", "isrc_request", "insert"})
                 => trace[k].arg = "error"
        /\ \A r \in RowsOf(f) : music[r].isrc = "error"
        /\ DedupHit(f) =>
              /\ ~Has("isrc_request", f)
              /\ ~Has("insert", f)
              /\ RowsOf(f) = {}
              /\ song > f \/ pc \in {"for"} \cup CleanupPcs
        /\ (DedupMiss(f) /\ PastIn(f, {"probe", "normalize", "select", "lookup"}))
              => Has("isrc_request", f)

\* two such files in one run: the first gets the row keyed "error", the
\* second is skipped because of it
C30_Witness ==
    /\ pc = "done"
    /\ NoIsrcTag(1) /\ NoIsrcTag(2)
    /\ \E r \in RowsOf(1) : music[r].isrc = "error"
    /\ DedupHit(2) /\ ~Has("isrc_request", 2)

====
